---- MODULE Spec2Model ----
(***************************************************************************)
(* Model of the kalyn-do inventory tool: the item/price reconciler         *)
(* (insert_item), the stock ledger (insert_stock_log, transfer_via_logs)   *)
(* and the delivery-order page (dynamic rows and the submit handler).      *)
(***************************************************************************)
EXTENDS Integers, Sequences, FiniteSets, TLC

\* ------------------------------------------------------------------------
\* Bounds of the model
\* ------------------------------------------------------------------------
NumNames == 2
MaxCalls == 2
MaxQty == 1
MaxOps == 2
MaxRows == 2

\* None / SQL NULL
NULL == 0

\* (category_id, item_name_id, color_id) of the registered master data
Triples == {1} \X (1..NumNames) \X {1}

\* the four cost components of a price version
CostKeys == {"harga_kain", "ongkos_jahit", "ongkos_transport", "ongkos_packing"}

BaseCost ==
  [harga_kain |-> 100, ongkos_jahit |-> 50, ongkos_transport |-> 20, ongkos_packing |-> 10]

\* cost tuples submitted: the base tuple, and one component changed
CostTuples ==
  {BaseCost, [BaseCost EXCEPT !.ongkos_packing = 15], [BaseCost EXCEPT !.harga_kain = 120]}

Years == {NULL, 2024}

\* the row dict handed to insert_item
ItemRows ==
  {[category_id |-> t[1], item_name_id |-> t[2], color_id |-> t[3],
    cost |-> c, created_year |-> y] : t \in Triples, c \in CostTuples, y \in Years}

\* outcome of the store calls of one insert_item call: all succeed, or the
\* named call answers with an error, or an insert returns no data, or the
\* named call raises (_raise) and the except clause of insert_item answers.
\* A raising item call differs from one answering with an error in the
\* message only and is not drawn separately.
StoreFaults ==
  {"none", "item_lookup", "item_insert", "item_insert_nodata", "price_lookup",
   "price_insert", "price_insert_nodata", "price_close",
   "price_lookup_raise", "price_insert_raise", "price_close_raise"}

VARIABLES
  items,      \* table item: sequence of rows, id = position
  prices,     \* table item_price_history: sequence of rows, id = position
  clock,      \* number of insert_item calls made so far (datetime.now)
  last,       \* the most recent insert_item call: its triple, costs and result
  prev,       \* the insert_item call before it
  proc,       \* concurrent insert_item calls: position and locals of each
  ledger,     \* table item_stock_log: sequence of movement rows, append order
  call,       \* the most recent ledger operation: its arguments and result
  dest,       \* delivery-order page: the destination store selected
  rows,       \* delivery-order page: the widget state of the order rows
  keep,       \* whether a keyed widget keeps its value when its options change
  attempt,    \* delivery-order page: the last quantity typed into a row
  sub,        \* delivery-order page: what the last submit click did
  labels,     \* tables category, color and item_name: sequences of rows
  form,       \* the other pages: the open dialog or the last form submission
  drive       \* the barcode folder of the file store: the files in it

vars == <<items, prices, clock, last, prev, proc, ledger, call, dest, rows, keep, attempt, sub,
          labels, form, drive>>
storeVars == <<items, prices, clock, last, prev, proc>>
ledgerVars == <<ledger, call>>
pageVars == <<dest, rows, keep, attempt, sub>>
auxVars == <<labels, form, drive>>

NoLabels == [category |-> <<>>, color |-> <<>>, item_name |-> <<>>]

NoCall == [op |-> "none"]

\* ------------------------------------------------------------------------
\* Store queries
\* ------------------------------------------------------------------------

\* mutant: the lookup by the triple never finds a row
ItemLookup_Never(its, row) == <<>>

\* select * from item where category_id = .. item_name_id = .. color_id = ..
ItemLookup(its, row) ==
  SelectSeq(its, LAMBDA r : /\ r.category_id = row.category_id
                            /\ r.item_name_id = row.item_name_id
                            /\ r.color_id = row.color_id)

\* view item_price_current kept by the store: the open versions (valid_to unset)
ItemPriceCurrentView(prs) == SelectSeq(prs, LAMBDA p : p.valid_to = NULL)

\* select .. from item_price_current where item_id = ..
PriceCurrent_AnyItem(prs, item_id) == ItemPriceCurrentView(prs)

PriceCurrent(prs, item_id) ==
  SelectSeq(ItemPriceCurrentView(prs), LAMBDA p : p.item_id = item_id)

\* all versions of an item, in insertion order
VersionsOf(prs, item_id) == SelectSeq(prs, LAMBDA p : p.item_id = item_id)

\* mutant: the store drops an insert whose triple a row already has
ItemInsert_Unique(its, row) ==
  IF \E i \in 1..Len(its) : /\ its[i].category_id = row.category_id
                             /\ its[i].item_name_id = row.item_name_id
                             /\ its[i].color_id = row.color_id
    THEN its
    ELSE Append(its, [id |-> Len(its) + 1,
                      category_id |-> row.category_id,
                      item_name_id |-> row.item_name_id,
                      color_id |-> row.color_id,
                      created_year |-> row.created_year])

\* insert into item (id assigned by the store)
ItemInsert(its, row) ==
  Append(its, [id |-> Len(its) + 1,
               category_id |-> row.category_id,
               item_name_id |-> row.item_name_id,
               color_id |-> row.color_id,
               created_year |-> row.created_year])

\* insert into item_price_history (id assigned by the store; valid_to and
\* harga_jual are not in the payload and stay unset)
PriceInsert(prs, item_id, new_price) ==
  Append(prs, [id |-> Len(prs) + 1, item_id |-> item_id,
               cost |-> new_price, harga_jual |-> NULL, valid_to |-> NULL])

\* mutant: the update matches no row, the old version stays open
PriceClose_NoRow(prs, id, now) == prs

\* update item_price_history set valid_to = now where id = ..
PriceClose(prs, id, now) ==
  [i \in 1..Len(prs) |->
     IF prs[i].id = id THEN [prs[i] EXCEPT !.valid_to = now] ELSE prs[i]]

\* mutant: the comparison leaves out ongkos_packing
SamePrice_NoPacking(current, new_price) ==
  \A k \in CostKeys \ {"ongkos_packing"} : current.cost[k] = new_price[k]

\* mutant: stored and submitted components never compare equal
SamePrice_Never(current, new_price) ==
  \A k \in CostKeys : current.cost[k] = new_price[k] /\ FALSE

\* all(current[k] == new_price[k] for the four cost keys)
SamePrice(current, new_price) ==
  \A k \in CostKeys : current.cost[k] = new_price[k]

\* ------------------------------------------------------------------------
\* insert_item
\* ------------------------------------------------------------------------
Ret(ok, msg, kind, item_id, price_id, changed) ==
  [ok |-> ok, msg |-> msg, val |-> kind, item_id |-> item_id,
   price_id |-> price_id, price_changed |-> changed]

Out(its, prs, isnew, r) == [items |-> its, prices |-> prs, item_is_new |-> isnew, ret |-> r]

\* step 3: the message for a completed call
BuildMsg(item_is_new, price_changed) ==
  IF item_is_new /\ price_changed THEN "Item baru dibuat dan harga diset."
  ELSE IF ~item_is_new /\ price_changed THEN "Item sudah ada, harga diperbarui."
  ELSE IF ~item_is_new /\ ~price_changed THEN "Item sudah ada, harga tetap sama."
  ELSE "Item baru dibuat."

\* except Exception as e: return False, str(e), None
Raised == Ret(FALSE, "str(e)", "None", NULL, NULL, FALSE)

\* step 2: pricing, once the item row is known
HandlePrice(its, prs, row, item_id, item_is_new, f, now) ==
  LET cur == PriceCurrent(prs, item_id) IN
  IF f = "price_lookup"
    THEN Out(its, prs, item_is_new, Ret(FALSE, "Price lookup failed", "item", item_id, NULL, FALSE))
  ELSE IF f = "price_lookup_raise"
    THEN Out(its, prs, item_is_new, Raised)
  ELSE IF cur = <<>>
    THEN IF f = "price_insert"
           THEN Out(its, prs, item_is_new,
                    Ret(FALSE, "Insert price failed", "item", item_id, NULL, FALSE))
           ELSE IF f = "price_insert_raise"
           THEN Out(its, prs, item_is_new, Raised)
           ELSE LET prs2 == PriceInsert(prs, item_id, row.cost) IN
                Out(its, prs2, item_is_new,
                    Ret(TRUE, BuildMsg(item_is_new, TRUE), "full", item_id,
                        IF f = "price_insert_nodata" THEN NULL ELSE Len(prs2), TRUE))
  ELSE LET current == Head(cur) IN
       IF SamePrice(current, row.cost)
         THEN Out(its, prs, item_is_new,
                  Ret(TRUE, BuildMsg(item_is_new, FALSE), "full", item_id, current.id, FALSE))
       ELSE IF f = "price_close"
         THEN Out(its, prs, item_is_new,
                  Ret(FALSE, "Closing old price failed", "item", item_id, NULL, FALSE))
       ELSE IF f = "price_close_raise"
         THEN Out(its, prs, item_is_new, Raised)
       ELSE LET closed == PriceClose(prs, current.id, now) IN
            IF f = "price_insert"
              THEN Out(its, closed, item_is_new,
                       Ret(FALSE, "Insert new price failed", "item", item_id, NULL, FALSE))
            ELSE IF f = "price_insert_raise"
              THEN Out(its, closed, item_is_new, Raised)
              ELSE LET prs2 == PriceInsert(closed, item_id, row.cost) IN
                   Out(its, prs2, item_is_new,
                       Ret(TRUE, BuildMsg(item_is_new, TRUE), "full", item_id,
                           IF f = "price_insert_nodata" THEN NULL ELSE Len(prs2), TRUE))

\* the whole call: step 1 finds or creates the item, then HandlePrice
insert_item(its, prs, row, f, now) ==
  LET found == ItemLookup(its, row) IN
  IF f = "item_lookup"
    THEN Out(its, prs, FALSE, Ret(FALSE, "Item lookup failed", "None", NULL, NULL, FALSE))
  ELSE IF found # <<>>
    THEN HandlePrice(its, prs, row, Head(found).id, FALSE, f, now)
  ELSE IF f = "item_insert"
    THEN Out(its, prs, FALSE, Ret(FALSE, "Insert item failed", "None", NULL, NULL, FALSE))
  ELSE LET its2 == ItemInsert(its, row) IN
       IF f = "item_insert_nodata"
         THEN Out(its2, prs, TRUE,
                  Ret(FALSE, "Insert item failed: no data returned", "None", NULL, NULL, FALSE))
         ELSE HandlePrice(its2, prs, row, Len(its2), TRUE, f, now)

\* ------------------------------------------------------------------------
\* Specification of the reconciler: insert_item calls one after another
\* ------------------------------------------------------------------------
Init ==
  /\ items = <<>>
  /\ prices = <<>>
  /\ clock = 0
  /\ last = NoCall
  /\ prev = NoCall
  /\ proc = <<>>
  /\ ledger = <<>>
  /\ call = NoCall
  /\ dest = 1
  /\ rows = <<>>
  /\ keep = TRUE
  /\ attempt = NoCall
  /\ sub = NoCall
  /\ labels = NoLabels
  /\ form = NoCall
  /\ drive = <<>>

InsertItem ==
  /\ clock < MaxCalls
  /\ \E row \in ItemRows, f \in StoreFaults :
       LET o == insert_item(items, prices, row, f, clock + 1)
           found == ItemLookup(items, row) IN
         /\ items' = o.items
         /\ prices' = o.prices
         /\ last' = [op |-> "insert_item",
                     triple |-> <<row.category_id, row.item_name_id, row.color_id>>,
                     cost |-> row.cost, ret |-> o.ret,
                     item_is_new |-> o.item_is_new,
                     versions_before |->
                       IF found = <<>> THEN 0 ELSE Len(VersionsOf(prices, Head(found).id))]
  /\ clock' = clock + 1
  /\ prev' = last
  /\ UNCHANGED <<proc, ledgerVars, pageVars, auxVars>>

Next == InsertItem

Spec == Init /\ [][Next]_vars

\* ------------------------------------------------------------------------
\* Specification of concurrent reconciles: two insert_item calls on the same
\* triple, each store call one step, the steps of the calls interleaved
\* ------------------------------------------------------------------------
Procs == {1, 2}

\* the calls are made with the triple of FirstItemRow and any cost tuple
RaceRow(cost) ==
  [category_id |-> 1, item_name_id |-> 1, color_id |-> 1,
   cost |-> cost, created_year |-> NULL]

ProcStart(cost) ==
  [pc |-> "item_lookup", row |-> RaceRow(cost), item_id |-> NULL, item_is_new |-> FALSE,
   seen |-> NULL, ok |-> FALSE, price_changed |-> FALSE]

ProcDone(pr, ok, changed) ==
  [pr EXCEPT !.pc = "done", !.ok = ok, !.price_changed = changed]

\* the store before the calls: empty, or the item registered with BaseCost
InitRace ==
  /\ \E registered \in BOOLEAN :
       LET o == IF registered
                  THEN insert_item(<<>>, <<>>, RaceRow(BaseCost), "none", 1)
                  ELSE Out(<<>>, <<>>, FALSE, Raised)
       IN /\ items = o.items
          /\ prices = o.prices
  /\ clock = 1
  /\ last = NoCall
  /\ prev = NoCall
  /\ \E c1, c2 \in CostTuples : proc = <<ProcStart(c1), ProcStart(c2)>>
  /\ ledger = <<>>
  /\ call = NoCall
  /\ dest = 1
  /\ rows = <<>>
  /\ keep = TRUE
  /\ attempt = NoCall
  /\ sub = NoCall
  /\ labels = NoLabels
  /\ form = NoCall
  /\ drive = <<>>

RaceFrame == UNCHANGED <<last, prev, ledgerVars, pageVars, auxVars>>

\* item_lookup ... .limit(1).execute()
RaceItemLookup(p) ==
  /\ proc[p].pc = "item_lookup"
  /\ LET found == ItemLookup(items, proc[p].row) IN
       proc' = [proc EXCEPT ![p] =
                  IF found # <<>>
                    THEN [@ EXCEPT !.pc = "price_lookup", !.item_id = Head(found).id]
                    ELSE [@ EXCEPT !.pc = "item_insert"]]
  /\ UNCHANGED <<items, prices, clock>>
  /\ RaceFrame

\* item_insert ... .insert(item_payload).execute(); the store may reject it
RaceItemInsert(p) ==
  /\ proc[p].pc = "item_insert"
  /\ \E rejected \in BOOLEAN :
       IF rejected
         THEN /\ proc' = [proc EXCEPT ![p] = ProcDone(@, FALSE, FALSE)]
              /\ items' = items
         ELSE LET its2 == ItemInsert(items, proc[p].row) IN
              /\ items' = its2
              /\ proc' = [proc EXCEPT ![p] =
                            [@ EXCEPT !.pc = "price_lookup", !.item_id = Len(its2),
                                      !.item_is_new = TRUE]]
  /\ UNCHANGED <<prices, clock>>
  /\ RaceFrame

\* current_price_resp ... .limit(1).execute(), and the same_price test
RacePriceLookup(p) ==
  /\ proc[p].pc = "price_lookup"
  /\ LET cur == PriceCurrent(prices, proc[p].item_id) IN
       proc' = [proc EXCEPT ![p] =
                  IF cur = <<>> THEN [@ EXCEPT !.pc = "price_insert"]
                  ELSE IF SamePrice(Head(cur), proc[p].row.cost)
                    THEN ProcDone([@ EXCEPT !.seen = Head(cur).id], TRUE, FALSE)
                  ELSE [@ EXCEPT !.pc = "price_close", !.seen = Head(cur).id]]
  /\ UNCHANGED <<items, prices, clock>>
  /\ RaceFrame

\* price_close ... .update({"valid_to": now_iso}).eq("id", current["id"])
RacePriceClose(p) ==
  /\ proc[p].pc = "price_close"
  /\ prices' = PriceClose(prices, proc[p].seen, clock + 1)
  /\ clock' = clock + 1
  /\ proc' = [proc EXCEPT ![p] = [@ EXCEPT !.pc = "price_insert"]]
  /\ UNCHANGED items
  /\ RaceFrame

\* price_insert ... .insert(price_insert_payload).execute(); the store may reject it
RacePriceInsert(p) ==
  /\ proc[p].pc = "price_insert"
  /\ \E rejected \in BOOLEAN :
       IF rejected
         THEN /\ proc' = [proc EXCEPT ![p] = ProcDone(@, FALSE, FALSE)]
              /\ prices' = prices
         ELSE /\ prices' = PriceInsert(prices, proc[p].item_id, proc[p].row.cost)
              /\ proc' = [proc EXCEPT ![p] = ProcDone(@, TRUE, TRUE)]
  /\ UNCHANGED <<items, clock>>
  /\ RaceFrame

NextRace ==
  \E p \in Procs :
    \/ RaceItemLookup(p)
    \/ RaceItemInsert(p)
    \/ RacePriceLookup(p)
    \/ RacePriceClose(p)
    \/ RacePriceInsert(p)

SpecRace == InitRace /\ [][NextRace]_vars

\* ------------------------------------------------------------------------
\* Stock ledger: insert_stock_log and transfer_via_logs
\* ------------------------------------------------------------------------
WAREHOUSE_STORE_ID == 4

\* the destination stores of STORE_ID_BY_NAME (banda, karawang, purwakarta)
DestStores == {1, 2, 3}

Stores == DestStores \cup {WAREHOUSE_STORE_ID}

Sizes == {"OS", "M"}

MovementTypes == {"in_stock", "out", "adjustment", "transfer_in", "transfer_out"}

StockLogRow(mt, hq, q, id, ht, t, hs) ==
  [movement_type |-> mt, has_qty |-> hq, jumlah_barang |-> q,
   item_id |-> id, has_triple |-> ht, triple |-> t,
   store_id |-> WAREHOUSE_STORE_ID, has_size |-> hs, size |-> "M"]

\* the row dicts handed to insert_stock_log: every movement_type with every
\* quantity in -MaxQty..MaxQty for the item given by id; an unknown
\* movement_type; jumlah_barang missing; the item given by its triple
\* (registered or not) or not at all; the size left to the default
StockLogRows ==
  {StockLogRow(mt, TRUE, q, 1, FALSE, <<1, 1, 1>>, TRUE) :
     mt \in MovementTypes, q \in -MaxQty..MaxQty}
  \cup {StockLogRow("sold", TRUE, q, 1, FALSE, <<1, 1, 1>>, TRUE) : q \in {0, 1}}
  \cup {StockLogRow("in_stock", FALSE, 0, 1, FALSE, <<1, 1, 1>>, TRUE)}
  \cup {StockLogRow(mt, TRUE, 1, NULL, TRUE, t, FALSE) :
          mt \in {"in_stock", "out"}, t \in Triples}
  \cup {StockLogRow("in_stock", TRUE, 1, NULL, FALSE, <<1, 1, 1>>, TRUE)}

\* outcome of the store calls of one insert_stock_log call
LogFaults == {"none", "item_lookup", "insert"}

Abs(n) == IF n < 0 THEN -n ELSE n

\* mutant: the sign is flipped instead of forced
SignedQty_Negate(movement_type, qty) ==
  IF movement_type \in {"out", "transfer_out"} THEN -qty
  ELSE IF movement_type \in {"in_stock", "transfer_in"} THEN Abs(qty)
  ELSE qty

\* the sign rules: out kinds negative, in kinds positive, adjustment as given
SignedQty(movement_type, qty) ==
  IF movement_type \in {"out", "transfer_out"} THEN -Abs(qty)
  ELSE IF movement_type \in {"in_stock", "transfer_in"} THEN Abs(qty)
  ELSE qty

LogOut(ldg, ok, msg) == [ledger |-> ldg, ok |-> ok, msg |-> msg]

\* mutant: the write replaces the newest row of the ledger
StockLogInsert_Overwrite(ldg, item_id, row, qty) ==
  LET new == [item_id |-> item_id,
              store_id |-> row.store_id,
              size |-> IF row.has_size THEN row.size ELSE "OS",
              movement_type |-> row.movement_type,
              quantity |-> qty]
  IN IF ldg = <<>> THEN <<new>> ELSE [ldg EXCEPT ![Len(ldg)] = new]

\* insert into item_stock_log
StockLogInsert(ldg, item_id, row, qty) ==
  Append(ldg, [item_id |-> item_id,
               store_id |-> row.store_id,
               size |-> IF row.has_size THEN row.size ELSE "OS",
               movement_type |-> row.movement_type,
               quantity |-> qty])

\* mutant: the lookup ignores the triple
ItemIdLookup_Any(its, row) == its

\* select id from item where the triple matches (no limit)
ItemIdLookup(its, row) ==
  SelectSeq(its, LAMBDA r : /\ r.category_id = row.triple[1]
                            /\ r.item_name_id = row.triple[2]
                            /\ r.color_id = row.triple[3])

insert_stock_log(its, ldg, row, f) ==
  IF row.movement_type \notin MovementTypes
    THEN LogOut(ldg, FALSE, "Invalid movement_type")
  ELSE IF ~row.has_qty
    THEN LogOut(ldg, FALSE, "Missing jumlah_barang")
  ELSE IF row.jumlah_barang = 0
    THEN LogOut(ldg, FALSE, "Quantity cannot be zero")
  ELSE
    LET qty == SignedQty(row.movement_type, row.jumlah_barang)
        found == ItemIdLookup(its, row)
    IN
    IF row.item_id = NULL /\ ~row.has_triple
      THEN LogOut(ldg, FALSE, "Missing key to resolve item_id")
    ELSE IF row.item_id = NULL /\ f = "item_lookup"
      THEN LogOut(ldg, FALSE, "Item lookup failed")
    ELSE IF row.item_id = NULL /\ found = <<>>
      THEN LogOut(ldg, FALSE, "Item not found for given category_id/item_name_id/color_id")
    ELSE IF f = "insert"
      THEN LogOut(ldg, FALSE, "Insert stock log failed")
    ELSE LogOut(StockLogInsert(ldg, IF row.item_id = NULL THEN Head(found).id ELSE row.item_id,
                               row, qty),
                TRUE, "Inserted stock log")

\* the dict of the transfer_out write
TransferOutRow(item_id, size, from_store_id, quantity) ==
  [movement_type |-> "transfer_out", has_qty |-> TRUE, jumlah_barang |-> quantity,
   item_id |-> item_id, has_triple |-> FALSE, triple |-> <<NULL, NULL, NULL>>,
   store_id |-> from_store_id, has_size |-> TRUE, size |-> size]

\* mutant: the transfer_in write leaves the size out
TransferInRow_NoSize(item_id, size, to_store_id, quantity) ==
  [movement_type |-> "transfer_in", has_qty |-> TRUE, jumlah_barang |-> quantity,
   item_id |-> item_id, has_triple |-> FALSE, triple |-> <<NULL, NULL, NULL>>,
   store_id |-> to_store_id, has_size |-> FALSE, size |-> size]

\* the dict of the transfer_in write
TransferInRow(item_id, size, to_store_id, quantity) ==
  [movement_type |-> "transfer_in", has_qty |-> TRUE, jumlah_barang |-> quantity,
   item_id |-> item_id, has_triple |-> FALSE, triple |-> <<NULL, NULL, NULL>>,
   store_id |-> to_store_id, has_size |-> TRUE, size |-> size]

\* mutant: a failed transfer_in is compensated by a transfer_in back at the source
AfterTransferInFailed_Compensate(its, ldg, item_id, size, from_store_id, quantity) ==
  insert_stock_log(its, ldg, TransferInRow(item_id, size, from_store_id, quantity), "none").ledger

\* the transfer_in write failed: the ledger is left as it is
AfterTransferInFailed(its, ldg, item_id, size, from_store_id, quantity) == ldg

\* mutant: only a negative quantity is rejected
QtyRejected_NegativeOnly(quantity) == quantity < 0

\* if quantity <= 0: return False, "Quantity must be positive"
QtyRejected(quantity) == quantity <= 0

\* the result of transfer_via_logs, with the insert_stock_log calls it made
TvlOut(ldg, ok, msg, attempts) ==
  [ledger |-> ldg, ok |-> ok, msg |-> msg, attempts |-> attempts]

\* mutant: the transfer_in write is made although the transfer_out write failed
AfterTransferOutFailed_StillIn(its, ldg, item_id, size, to_store_id, quantity, fin) ==
  [ledger |-> insert_stock_log(its, ldg,
                TransferInRow(item_id, size, to_store_id, quantity), fin).ledger,
   attempts |-> <<"transfer_in">>]

\* if not ok_out: return; nothing more is written
AfterTransferOutFailed(its, ldg, item_id, size, to_store_id, quantity, fin) ==
  [ledger |-> ldg, attempts |-> <<>>]

\* fout, fin: the outcome of the two insert_stock_log calls
transfer_via_logs(its, ldg, item_id, size, from_store_id, to_store_id, quantity, fout, fin) ==
  IF QtyRejected(quantity)
    THEN TvlOut(ldg, FALSE, "Quantity must be positive", <<>>)
  ELSE
    LET o1 == insert_stock_log(its, ldg,
                TransferOutRow(item_id, size, from_store_id, quantity), fout)
    IN
    IF ~o1.ok
      THEN LET a == AfterTransferOutFailed(its, o1.ledger, item_id, size, to_store_id,
                                           quantity, fin)
           IN TvlOut(a.ledger, FALSE, "transfer_out failed", <<"transfer_out">> \o a.attempts)
    ELSE
      LET o2 == insert_stock_log(its, o1.ledger,
                  TransferInRow(item_id, size, to_store_id, quantity), fin)
      IN
      IF ~o2.ok
        THEN TvlOut(AfterTransferInFailed(its, o2.ledger, item_id, size, from_store_id, quantity),
                    FALSE, "transfer_in failed after transfer_out",
                    <<"transfer_out", "transfer_in">>)
        ELSE TvlOut(o2.ledger, TRUE, "Transfer OK", <<"transfer_out", "transfer_in">>)

\* remote procedure transfer_stock of the store: moves the quantity from one
\* store to the other in one transaction
RemoteTransferStock(its, ldg, row, size, from_store_id, to_store_id, quantity) ==
  LET found == ItemLookup(its, row) IN
  IF found = <<>> THEN ldg
  ELSE ldg \o
    << [item_id |-> Head(found).id, store_id |-> from_store_id, size |-> size,
        movement_type |-> "transfer_out", quantity |-> -quantity],
       [item_id |-> Head(found).id, store_id |-> to_store_id, size |-> size,
        movement_type |-> "transfer_in", quantity |-> quantity] >>

\* outcome of the rpc call of transfer_stock
RpcFaults == {"none", "rpc_error", "rpc_raise"}

TsOut(ldg, ok, msg, rpc) == [ledger |-> ldg, ok |-> ok, msg |-> msg, rpc |-> rpc]

\* rpc: whether the remote procedure was called
transfer_stock(its, ldg, row, size, from_store_id, to_store_id, quantity, f) ==
  IF QtyRejected(quantity)
    THEN TsOut(ldg, FALSE, "Quantity must be positive", FALSE)
  ELSE IF f = "rpc_error"
    THEN TsOut(ldg, FALSE, "Transfer failed", TRUE)
  ELSE IF f = "rpc_raise"
    THEN TsOut(ldg, FALSE, "str(e)", TRUE)
  ELSE TsOut(RemoteTransferStock(its, ldg, row, size, from_store_id, to_store_id, quantity),
             TRUE, "Transfer OK", TRUE)

\* table item_stock kept by the store: the summed quantity of the movements
\* of one (item, store, size)
RECURSIVE ItemStockQty(_, _, _, _)
ItemStockQty(ldg, item_id, store_id, size) ==
  IF ldg = <<>> THEN 0
  ELSE LET r == ldg[Len(ldg)] IN
       ItemStockQty(SubSeq(ldg, 1, Len(ldg) - 1), item_id, store_id, size)
         + (IF r.item_id = item_id /\ r.store_id = store_id /\ r.size = size
              THEN r.quantity ELSE 0)

RECURSIVE SumOver(_, _)
SumOver(f, S) ==
  IF S = {} THEN 0
  ELSE LET x == CHOOSE y \in S : TRUE IN f[x] + SumOver(f, S \ {x})

\* the quantity of one (item, size) summed over all stores
TotalQty(ldg, item_id, size) ==
  SumOver([s \in Stores |-> ItemStockQty(ldg, item_id, s, size)], Stores)

\* ------------------------------------------------------------------------
\* Specification of the ledger: one registered item, then ledger operations
\* ------------------------------------------------------------------------
FirstItemRow ==
  [category_id |-> 1, item_name_id |-> 1, color_id |-> 1,
   cost |-> BaseCost, created_year |-> NULL]

InitLedger ==
  LET o == insert_item(<<>>, <<>>, FirstItemRow, "none", 1) IN
  /\ items = o.items
  /\ prices = o.prices
  /\ clock = 1
  /\ last = NoCall
  /\ prev = NoCall
  /\ proc = <<>>
  /\ ledger = <<>>
  /\ call = NoCall
  /\ dest = 1
  /\ rows = <<>>
  /\ keep = TRUE
  /\ attempt = NoCall
  /\ sub = NoCall
  /\ labels = NoLabels
  /\ form = NoCall
  /\ drive = <<>>

InsertStockLog ==
  /\ Len(ledger) < MaxOps
  /\ \E row \in StockLogRows, f \in LogFaults :
       LET o == insert_stock_log(items, ledger, row, f) IN
         /\ f = "item_lookup" => row.item_id = NULL /\ row.has_triple
         /\ ledger' = o.ledger
         /\ call' = [op |-> "insert_stock_log", movement_type |-> row.movement_type,
                     has_qty |-> row.has_qty, quantity |-> row.jumlah_barang,
                     by_triple |-> row.item_id = NULL /\ row.has_triple,
                     found |-> ItemLookup(items, [category_id |-> row.triple[1],
                                                  item_name_id |-> row.triple[2],
                                                  color_id |-> row.triple[3]]) # <<>>,
                     ok |-> o.ok, msg |-> o.msg, n_before |-> Len(ledger)]
  /\ UNCHANGED <<storeVars, pageVars, auxVars>>

TransferViaLogs ==
  /\ Len(ledger) < MaxOps
  /\ \E item_id \in 1..Len(items), size \in Sizes, to \in DestStores,
        quantity \in -1..MaxQty, fout \in {"none", "insert"}, fin \in {"none", "insert"} :
       LET o == transfer_via_logs(items, ledger, item_id, size, WAREHOUSE_STORE_ID, to,
                                  quantity, fout, fin)
       IN
         \* an outcome is drawn only for a write that is made
         /\ quantity <= 0 => fout = "none"
         /\ fout # "none" => fin = "none"
         /\ ledger' = o.ledger
         /\ call' = [op |-> "transfer_via_logs", item_id |-> item_id, size |-> size,
                     from_store_id |-> WAREHOUSE_STORE_ID, to_store_id |-> to,
                     quantity |-> quantity, ok |-> o.ok, msg |-> o.msg,
                     fault |-> IF quantity <= 0 THEN "none"
                               ELSE IF fout # "none" THEN "transfer_out"
                               ELSE IF fin # "none" THEN "transfer_in" ELSE "none",
                     attempts |-> o.attempts,
                     n_before |-> Len(ledger)]
  /\ UNCHANGED <<storeVars, pageVars, auxVars>>

\* the destinations transfer_stock is called with
RpcDests == {1, 2}

TransferStock ==
  /\ Len(ledger) < MaxOps
  /\ \E size \in {"M"}, to \in RpcDests, quantity \in -1..MaxQty, f \in RpcFaults :
       LET o == transfer_stock(items, ledger, FirstItemRow, size, WAREHOUSE_STORE_ID, to,
                               quantity, f)
       IN
         /\ f # "none" => quantity > 0
         /\ ledger' = o.ledger
         /\ call' = [op |-> "transfer_stock", size |-> size, to_store_id |-> to,
                     quantity |-> quantity, ok |-> o.ok, msg |-> o.msg, rpc |-> o.rpc,
                     n_before |-> Len(ledger)]
  /\ UNCHANGED <<storeVars, pageVars, auxVars>>

NextLedger == InsertStockLog \/ TransferViaLogs \/ TransferStock

SpecLedger == InitLedger /\ [][NextLedger]_vars

\* ------------------------------------------------------------------------
\* Stock snapshot: get_items_in_stock
\* ------------------------------------------------------------------------

\* column item.sku kept by the store: one SKU per item
SkuOf(item_id) == item_id

StockRows_AllRows(its, ldg, store_id) ==
  {r \in {[item_id |-> i, store_id |-> st, size |-> sz,
           quantity |-> ItemStockQty(ldg, i, st, sz)] :
             i \in 1..Len(its), st \in Stores, sz \in Sizes} :
     /\ \E k \in 1..Len(ldg) :
          ldg[k].item_id = r.item_id /\ ldg[k].store_id = r.store_id /\ ldg[k].size = r.size
     /\ store_id # NULL => r.store_id = store_id}

\* select quantity, size, item from item_stock where quantity > 0 [and store_id = ..]
StockRows(its, ldg, store_id) ==
  {r \in {[item_id |-> i, store_id |-> st, size |-> sz,
           quantity |-> ItemStockQty(ldg, i, st, sz)] :
             i \in 1..Len(its), st \in Stores, sz \in Sizes} :
     /\ r.quantity > 0
     /\ store_id # NULL => r.store_id = store_id}

\* prices_by_item_id.get(item_id) over the rows of item_price_current
HargaJualOf(prs, item_id) ==
  LET cur == PriceCurrent(prs, item_id) IN
  IF cur = <<>> THEN NULL ELSE cur[Len(cur)].harga_jual

\* the dict built per "<sku>|<size>"; the quantity of the rows with the same
\* key is summed
get_items_in_stock(its, prs, ldg, store_id) ==
  LET srows == StockRows(its, ldg, store_id)
      keys == {<<SkuOf(r.item_id), r.size>> : r \in srows}
      of(k) == {r \in srows : <<SkuOf(r.item_id), r.size>> = k}
      first(k) == CHOOSE r \in of(k) : TRUE
  IN [k \in keys |->
        [sku |-> k[1],
         size |-> k[2],
         harga_jual |-> HargaJualOf(prs, first(k).item_id),
         quantity |-> SumOver([r \in of(k) |-> r.quantity], of(k)),
         item_name_id |-> its[first(k).item_id].item_name_id,
         category_id |-> its[first(k).item_id].category_id,
         color_id |-> its[first(k).item_id].color_id]]

\* ------------------------------------------------------------------------
\* Delivery-order page: the dynamic rows
\* ------------------------------------------------------------------------

\* sorted(): Python orders the size strings "M" < "OS"
SizeRank == [s \in Sizes |-> IF s = "M" THEN 1 ELSE 2]

RECURSIVE SortBy(_, _)
SortBy(S, rank) ==
  IF S = {} THEN <<>>
  ELSE LET m == CHOOSE x \in S : \A y \in S : rank[x] <= rank[y]
       IN <<m>> \o SortBy(S \ {m}, rank)

InSeq(x, sq) == \E i \in 1..Len(sq) : sq[i] = x

\* a row whose widgets were never rendered
EmptyRow ==
  [sku |-> NULL, size |-> "", qty |-> 0, sku_opts |-> <<>>, size_opts |-> <<>>, max_qty |-> 0]

\* (1) the pairs chosen in the rows before row i
UsedPairsBefore(rs, i) ==
  {<<rs[j].sku, rs[j].size>> : j \in {k \in 1..(i - 1) : rs[k].sku # NULL /\ rs[k].size # ""}}

\* (2) the SKUs that still have a free size, or are selected in this row
AvailableSkus(snap, used, current_selected_sku) ==
  LET skus == {k[1] : k \in DOMAIN snap}
      sku_options_all == SortBy(skus, [x \in skus |-> x])
  IN SelectSeq(sku_options_all,
       LAMBDA sku : \/ \E k \in DOMAIN snap : k[1] = sku /\ k \notin used
                    \/ sku = current_selected_sku)

\* (4) the sizes of the SKU that are not used yet, or are selected in this row
AvailableSizes(snap, used, selected_sku, current_selected_size) ==
  LET sizes == {k[2] : k \in {x \in DOMAIN snap : x[1] = selected_sku}}
      sizes_for_selected_sku == SortBy(sizes, [x \in sizes |-> SizeRank[x]])
  IN SelectSeq(sizes_for_selected_sku,
       LAMBDA size : <<selected_sku, size>> \notin used \/ size = current_selected_size)

\* st.selectbox(options, key): a new widget shows the first option; a widget
\* whose options are as in the last run keeps its value; when the options
\* changed the value is kept if it is still an option (keep) or the widget
\* starts again at the first option
Selectbox(kp, cur, none, prev_opts, opts) ==
  IF cur = none THEN opts[1]
  ELSE IF prev_opts = opts THEN cur
  ELSE IF kp /\ InSeq(cur, opts) THEN cur
  ELSE opts[1]

\* mutant: no upper limit on the quantity
MaxQtyFor_NoLimit(snap, sku, size) == MaxQty + 1

\* (5) max_qty: the snapshot quantity of the pair, at least 1
MaxQtyFor(snap, sku, size) ==
  LET q == IF <<sku, size>> \in DOMAIN snap THEN snap[<<sku, size>>].quantity ELSE 0
  IN IF q < 1 THEN 1 ELSE q

\* st.number_input(min_value=1, max_value=max_qty, value=1, key): starts at 1,
\* and again at 1 when max_value changed
NumberInput(cur, prev_max, max_qty) ==
  IF cur = 0 \/ prev_max # max_qty THEN 1 ELSE cur

\* one pass of the loop body for a row; a widget that is not rendered keeps
\* its session value until the end of the run and is marked by empty options
RenderRow(snap, used, row, kp) ==
  LET sku_opts == AvailableSkus(snap, used, row.sku) IN
  IF sku_opts = <<>>
    THEN [row EXCEPT !.sku_opts = <<>>, !.size_opts = <<>>, !.max_qty = 0]
  ELSE
    LET sku == Selectbox(kp, row.sku, NULL, row.sku_opts, sku_opts)
        size_opts == AvailableSizes(snap, used, sku, row.size)
    IN
    IF size_opts = <<>>
      THEN [row EXCEPT !.sku = sku, !.sku_opts = sku_opts, !.size_opts = <<>>, !.max_qty = 0]
    ELSE
      LET size == Selectbox(kp, row.size, "", row.size_opts, size_opts)
          max_qty == MaxQtyFor(snap, sku, size)
      IN [sku |-> sku, size |-> size, qty |-> NumberInput(row.qty, row.max_qty, max_qty),
          sku_opts |-> sku_opts, size_opts |-> size_opts, max_qty |-> max_qty]

\* for i in range(num_items): rows are rendered top to bottom
RECURSIVE RenderFrom(_, _, _, _)
RenderFrom(i, rs, snap, kp) ==
  IF i > Len(rs) THEN rs
  ELSE RenderFrom(i + 1,
         [rs EXCEPT ![i] = RenderRow(snap, UsedPairsBefore(rs, i), rs[i], kp)], snap, kp)

\* the script run up to the submit button; with no stock the page stops
\* before any row is rendered
RunRows(rs, snap, kp) ==
  IF DOMAIN snap = {}
    THEN [i \in 1..Len(rs) |->
            [rs[i] EXCEPT !.sku_opts = <<>>, !.size_opts = <<>>, !.max_qty = 0]]
    ELSE RenderFrom(1, rs, snap, kp)

\* end of a script run: the state of widgets that were not rendered is dropped
Cleanup(rs) ==
  [i \in 1..Len(rs) |->
     [rs[i] EXCEPT !.sku = IF rs[i].sku_opts = <<>> THEN NULL ELSE @,
                   !.size = IF rs[i].size_opts = <<>> THEN "" ELSE @,
                   !.qty = IF rs[i].max_qty = 0 THEN 0 ELSE @]]

Rerun(rs, snap, kp) == Cleanup(RunRows(rs, snap, kp))

\* ------------------------------------------------------------------------
\* Delivery-order page: the submit handler
\* ------------------------------------------------------------------------

\* the rows the handler does not skip
IsValidLine(r, snap) ==
  /\ r.sku # NULL /\ r.size # "" /\ r.qty > 0
  /\ <<r.sku, r.size>> \in DOMAIN snap

HandlerState(ldg, calls, results, order_rows, error) ==
  [ledger |-> ldg, calls |-> calls, transfer_results |-> results,
   order_rows |-> order_rows, error |-> error]

\* outcome of the two store writes of one transfer
TransferFaults == {<<"none", "none">>, <<"insert", "none">>, <<"none", "insert">>}

\* for i in range(num_items): the body of the submit loop from row i on; the
\* result is the set of handler states the store's outcomes can lead to
RECURSIVE SubmitLoop(_, _, _, _, _, _)
SubmitLoop(i, rs, snap, its, to_store_id, h) ==
  IF i > Len(rs) THEN {h}
  ELSE IF ~IsValidLine(rs[i], snap) THEN SubmitLoop(i + 1, rs, snap, its, to_store_id, h)
  ELSE
    LET meta == snap[<<rs[i].sku, rs[i].size>>] IN
    IF "item_id" \notin DOMAIN meta
      THEN {[h EXCEPT !.error = "KeyError: 'item_id'"]}
    ELSE
      UNION {
        LET qty == rs[i].qty
            o == transfer_via_logs(its, h.ledger, meta.item_id, meta.size,
                   WAREHOUSE_STORE_ID, to_store_id, qty, f[1], f[2])
            calls == Append(h.calls,
                       [line |-> i, item_id |-> meta.item_id, size |-> meta.size,
                        from_store_id |-> WAREHOUSE_STORE_ID, to_store_id |-> to_store_id,
                        quantity |-> qty])
            results == Append(h.transfer_results,
                         [line |-> i, sku |-> meta.sku, size |-> meta.size,
                          qty |-> qty, ok |-> o.ok])
        IN
        IF meta.harga_jual = NULL
          THEN {HandlerState(o.ledger, calls, results, h.order_rows,
                             "TypeError: NoneType * int")}
          ELSE SubmitLoop(i + 1, rs, snap, its, to_store_id,
                 HandlerState(o.ledger, calls, results,
                   Append(h.order_rows,
                     [SKU |-> meta.sku, Size |-> meta.size, Quantity |-> qty,
                      UnitPrice |-> meta.harga_jual, Total |-> meta.harga_jual * qty]),
                   h.error))
        : f \in TransferFaults }

\* the destinations selected in the model: banda and karawang
OrderDests == {1, 2}

\* ------------------------------------------------------------------------
\* Specification of the delivery-order page
\* ------------------------------------------------------------------------
Snapshot == get_items_in_stock(items, prices, ledger, WAREHOUSE_STORE_ID)

SecondItemRow ==
  [category_id |-> 1, item_name_id |-> 2, color_id |-> 1,
   cost |-> BaseCost, created_year |-> NULL]

InStockRow(item_id, size, q) ==
  [movement_type |-> "in_stock", has_qty |-> TRUE, jumlah_barang |-> q,
   item_id |-> item_id, has_triple |-> FALSE, triple |-> <<NULL, NULL, NULL>>,
   store_id |-> WAREHOUSE_STORE_ID, has_size |-> TRUE, size |-> size]

\* two registered items; stock-in movements of 0..MaxQty units for item 1 in
\* sizes M and OS and for item 2 in size M; then the first run of the page
InitOrder ==
  LET o1 == insert_item(<<>>, <<>>, FirstItemRow, "none", 1)
      o2 == insert_item(o1.items, o1.prices, SecondItemRow, "none", 2)
  IN
  /\ items = o2.items
  /\ prices = o2.prices
  /\ clock = 2
  /\ last = NoCall
  /\ prev = NoCall
  /\ proc = <<>>
  /\ call = NoCall
  /\ \E q1 \in 0..MaxQty, q2 \in 0..MaxQty, q3 \in 0..MaxQty :
       ledger = insert_stock_log(o2.items,
                  insert_stock_log(o2.items,
                    insert_stock_log(o2.items, <<>>, InStockRow(1, "M", q1), "none").ledger,
                    InStockRow(1, "OS", q2), "none").ledger,
                  InStockRow(2, "M", q3), "none").ledger
  /\ dest \in OrderDests
  /\ keep \in BOOLEAN
  /\ \E snap \in {get_items_in_stock(items, prices, ledger, WAREHOUSE_STORE_ID)} :
       rows = Rerun(<<EmptyRow>>, snap, keep)
  /\ attempt = NoCall
  /\ sub = NoCall
  /\ labels = NoLabels
  /\ form = NoCall
  /\ drive = <<>>

PageShown == DOMAIN Snapshot # {}

\* the destination selectbox
ChangeStore ==
  /\ \E d \in OrderDests \ {dest} : dest' = d
  /\ \E snap \in {Snapshot} : rows' = Rerun(rows, snap, keep)
  /\ attempt' = NoCall
  /\ sub' = NoCall
  /\ UNCHANGED <<storeVars, ledgerVars, keep, auxVars>>

\* the "Tambah Item" button
AddRow ==
  /\ PageShown
  /\ Len(rows) < MaxRows
  /\ \E snap \in {Snapshot} : rows' = Rerun(Append(rows, EmptyRow), snap, keep)
  /\ attempt' = NoCall
  /\ sub' = NoCall
  /\ UNCHANGED <<storeVars, ledgerVars, dest, keep, auxVars>>

\* another SKU is picked in a row
ChangeSku ==
  /\ \E i \in 1..Len(rows), snap \in {Snapshot} :
       \E v \in {rows[i].sku_opts[k] : k \in 1..Len(rows[i].sku_opts)} \ {rows[i].sku} :
         rows' = Rerun([rows EXCEPT ![i].sku = v], snap, keep)
  /\ attempt' = NoCall
  /\ sub' = NoCall
  /\ UNCHANGED <<storeVars, ledgerVars, dest, keep, auxVars>>

\* another size is picked in a row
ChangeSize ==
  /\ \E i \in 1..Len(rows), snap \in {Snapshot} :
       \E v \in {rows[i].size_opts[k] : k \in 1..Len(rows[i].size_opts)} \ {rows[i].size} :
         rows' = Rerun([rows EXCEPT ![i].size = v], snap, keep)
  /\ attempt' = NoCall
  /\ sub' = NoCall
  /\ UNCHANGED <<storeVars, ledgerVars, dest, keep, auxVars>>

\* a quantity is typed into a row: the number input takes it only within
\* min_value..max_value
ChangeQty ==
  /\ \E i \in 1..Len(rows), v \in 1..(MaxQty + 1), snap \in {Snapshot} :
       /\ rows[i].max_qty # 0
       /\ v # rows[i].qty
       /\ IF v <= rows[i].max_qty
            THEN /\ rows' = Rerun([rows EXCEPT ![i].qty = v], snap, keep)
                 /\ attempt' = NoCall
            ELSE /\ rows' = rows
                 /\ attempt' = [op |-> "rejected", line |-> i, value |-> v]
  /\ sub' = NoCall
  /\ UNCHANGED <<storeVars, ledgerVars, dest, keep, auxVars>>

\* the "Transfer & Generate Delivery Order" button: the script runs again and
\* then the handler walks the rows
Submit ==
  /\ PageShown
  /\ \E snap \in {Snapshot} : \E rs \in {RunRows(rows, snap, keep)} :
     \E h \in SubmitLoop(1, rs, snap, items, dest,
                         HandlerState(ledger, <<>>, <<>>, <<>>, "none")) :
         /\ ledger' = h.ledger
         /\ rows' = Cleanup(rs)
         /\ sub' = [op |-> "submit",
                    lines |-> [i \in 1..Len(rs) |->
                                 [sku |-> rs[i].sku, size |-> rs[i].size, qty |-> rs[i].qty,
                                  valid |-> IsValidLine(rs[i], snap),
                                  stock |-> ItemStockQty(ledger, rs[i].sku,
                                                         WAREHOUSE_STORE_ID, rs[i].size)]],
                    to_store_id |-> dest,
                    calls |-> h.calls,
                    transfer_results |-> h.transfer_results,
                    order_rows |-> h.order_rows,
                    error |-> h.error]
  /\ attempt' = NoCall
  /\ UNCHANGED <<storeVars, call, dest, keep, auxVars>>

NextOrder == ChangeStore \/ AddRow \/ ChangeSku \/ ChangeSize \/ ChangeQty \/ Submit

SpecOrder == InitOrder /\ [][NextOrder]_vars

\* ------------------------------------------------------------------------
\* The submit handler on stock entries of the shape the page expects
\* ------------------------------------------------------------------------

\* a sell price in rupiah
SellPrice == 5

\* the entries as the page documents them: with "item_id" and a sell price
ExpectedSnapshot ==
  [k \in DOMAIN Snapshot |->
     [sku |-> Snapshot[k].sku, size |-> Snapshot[k].size,
      harga_jual |-> SellPrice, quantity |-> Snapshot[k].quantity,
      item_id |-> CHOOSE i \in 1..Len(items) : SkuOf(i) = k[1]]]

\* the number of committed orders is bounded
Commit ==
  /\ PageShown
  /\ Len(ledger) <= MaxOps
  /\ \E snap \in {Snapshot} : \E rs \in {RunRows(rows, snap, keep)} :
     \E h \in SubmitLoop(1, rs, ExpectedSnapshot, items, dest,
                         HandlerState(ledger, <<>>, <<>>, <<>>, "none")) :
         /\ ledger' = h.ledger
         /\ rows' = Cleanup(rs)
         /\ sub' = [op |-> "submit",
                    lines |-> [i \in 1..Len(rs) |->
                                 [sku |-> rs[i].sku, size |-> rs[i].size, qty |-> rs[i].qty,
                                  valid |-> IsValidLine(rs[i], snap),
                                  stock |-> ItemStockQty(ledger, rs[i].sku,
                                                         WAREHOUSE_STORE_ID, rs[i].size)]],
                    to_store_id |-> dest,
                    calls |-> h.calls,
                    transfer_results |-> h.transfer_results,
                    order_rows |-> h.order_rows,
                    error |-> h.error]
  /\ attempt' = NoCall
  /\ UNCHANGED <<storeVars, call, dest, keep, auxVars>>

NextCommit == ChangeStore \/ AddRow \/ ChangeSku \/ ChangeSize \/ ChangeQty \/ Commit

SpecCommit == InitOrder /\ [][NextCommit]_vars

\* ------------------------------------------------------------------------
\* build_delivery_order_from_rows
\* ------------------------------------------------------------------------

\* the unit prices of the order rows: None, or an integer
UnitPrices == {NULL, 10, 25}

\* the UI order rows handed to the builder (Quantity and Unit Price are
\* integers, Unit Price may be None)
OrderRowInputs ==
  [SKU : {1}, Size : {"M"}, Quantity : -1..(MaxQty + 1), UnitPrice : UnitPrices]

OrderRowSeqs == UNION {[1..n -> OrderRowInputs] : n \in 0..MaxRows}

\* mutant: only a negative quantity is skipped
SkipRow_NegativeOnly(qty) == qty < 0

\* if qty <= 0: continue
SkipRow(qty) == qty <= 0

\* int(row["Unit Price"] or 0)
UnitPriceOf(row) == IF row.UnitPrice = NULL THEN 0 ELSE row.UnitPrice

DeliveryOrderLine(idx, row) ==
  [index |-> idx, sku |-> row.SKU, size |-> row.Size, qty |-> row.Quantity,
   unit_price |-> UnitPriceOf(row),
   line_total |-> UnitPriceOf(row) * row.Quantity]

\* the loop over enumerate(order_rows, start=1), up to row n
RECURSIVE BuildUpTo(_, _)
BuildUpTo(order_rows, n) ==
  IF n = 0 THEN [lines |-> <<>>, grand_total |-> 0]
  ELSE LET b == BuildUpTo(order_rows, n - 1)
           row == order_rows[n]
       IN IF SkipRow(row.Quantity) THEN b
          ELSE LET line == DeliveryOrderLine(n, row) IN
               [lines |-> Append(b.lines, line),
                grand_total |-> b.grand_total + line.line_total]

build_delivery_order_from_rows(outlet_name, order_rows) ==
  LET b == BuildUpTo(order_rows, Len(order_rows)) IN
  [outlet_name |-> outlet_name, lines |-> b.lines, grand_total |-> b.grand_total,
   barcodes |-> <<>>]

InitBuild ==
  /\ items = <<>>
  /\ prices = <<>>
  /\ clock = 0
  /\ last = NoCall
  /\ prev = NoCall
  /\ proc = <<>>
  /\ ledger = <<>>
  /\ \E rs \in OrderRowSeqs : call = [op |-> "order_rows", order_rows |-> rs]
  /\ dest \in OrderDests
  /\ rows = <<>>
  /\ keep = TRUE
  /\ attempt = NoCall
  /\ sub = NoCall
  /\ labels = NoLabels
  /\ form = NoCall
  /\ drive = <<>>

BuildDeliveryOrder ==
  /\ call.op = "order_rows"
  /\ call' = [op |-> "build", order_rows |-> call.order_rows,
              order |-> build_delivery_order_from_rows(dest, call.order_rows)]
  /\ UNCHANGED <<storeVars, ledger, pageVars, auxVars>>

NextBuild == BuildDeliveryOrder

SpecBuild == InitBuild /\ [][NextBuild]_vars

\* ------------------------------------------------------------------------
\* Text: a string is the sequence of its characters
\* ------------------------------------------------------------------------
LowerLetters == {"a", "b", "c", "d"}
UpperLetters == {"A", "B", "C", "D"}
Letters == LowerLetters \cup UpperLetters
Digits == {"1"}

\* str.lower() and str.upper() on one character
LowerChar(c) ==
  CASE c = "A" -> "a" [] c = "B" -> "b" [] c = "C" -> "c" [] c = "D" -> "d" [] OTHER -> c

UpperChar(c) ==
  CASE c = "a" -> "A" [] c = "b" -> "B" [] c = "c" -> "C" [] c = "d" -> "D" [] OTHER -> c

\* str.upper()
Upper(str) == [i \in 1..Len(str) |-> UpperChar(str[i])]

\* str.title(): a letter is upper-cased when it starts the string or follows
\* a character that is no letter, and lower-cased otherwise
Title(str) ==
  [i \in 1..Len(str) |->
     IF i = 1 \/ str[i - 1] \notin Letters THEN UpperChar(str[i]) ELSE LowerChar(str[i])]

\* mutant: the match is case-sensitive
ILike_CaseSensitive(pattern, text) ==
  /\ Len(pattern) = Len(text)
  /\ \A i \in 1..Len(pattern) : pattern[i] = "_" \/ pattern[i] = text[i]

\* text ILIKE pattern: case-insensitive, "_" in the pattern stands for any
\* one character (no "%" occurs in the texts drawn)
ILike(pattern, text) ==
  /\ Len(pattern) = Len(text)
  /\ \A i \in 1..Len(pattern) :
       pattern[i] = "_" \/ LowerChar(pattern[i]) = LowerChar(text[i])

\* re.match(r"^[A-Za-z\s'-]{2,50}$", val)
MatchesName(val) ==
  /\ Len(val) >= 2 /\ Len(val) <= 50
  /\ \A i \in 1..Len(val) : val[i] \in Letters \cup {" ", "'", "-"}

\* re.match(r"^[A-Za-z0-9\s'_-]{2,50}$", val)
MatchesItemName(val) ==
  /\ Len(val) >= 2 /\ Len(val) <= 50
  /\ \A i \in 1..Len(val) : val[i] \in Letters \cup Digits \cup {" ", "'", "_", "-"}

\* re.match(r"^[A-Za-z]{2}$", val)
MatchesCode(val) ==
  /\ Len(val) = 2
  /\ \A i \in 1..Len(val) : val[i] \in Letters

\* ------------------------------------------------------------------------
\* The remaining store operations: insert_row, is_exist, the item-id and
\* quantity lookups and the stock snapshot, with the outcomes of their store
\* calls
\* ------------------------------------------------------------------------

\* the function returned (ok, msg, ..)
Returned(ok, msg, value) ==
  [outcome |-> "returned", has_ok |-> TRUE, ok |-> ok, msg |-> msg, value |-> value]

\* the function returned a bare value, without indicator or message
ReturnedBare(value) ==
  [outcome |-> "returned", has_ok |-> FALSE, ok |-> FALSE, msg |-> "", value |-> value]

\* an exception left the function
Escaped(exc) ==
  [outcome |-> "raised", has_ok |-> FALSE, ok |-> FALSE, msg |-> exc, value |-> 0]

\* outcome of one store call: it answers, answers with an error attribute,
\* or raises
CallFaults == {"none", "error", "raise"}

insert_row(f) ==
  IF f = "raise" THEN Returned(FALSE, "str(e)", 0)
  ELSE IF f = "error" THEN Returned(FALSE, "Insert failed", 0)
  ELSE Returned(TRUE, "Inserted", 1)

\* an answer with an error attribute carries data None or an empty list
ExistFaults == {"none", "raise", "error_data_none", "error_data_empty"}

\* select * from table where col ilike val; no try/except:
\* return len(response.data) != 0
is_exist(tbl, col_name, val, f) ==
  IF f = "raise" THEN Escaped("APIError")
  ELSE IF f = "error_data_none" THEN Escaped("TypeError: len(None)")
  ELSE IF f = "error_data_empty" THEN ReturnedBare(0)
  ELSE ReturnedBare(IF \E i \in 1..Len(tbl) : ILike(val, tbl[i][col_name]) THEN 1 ELSE 0)

get_item_id_from_attrs(its, row, f) ==
  LET found == ItemLookup(its, row) IN
  IF f = "raise" THEN Returned(FALSE, "str(e)", NULL)
  ELSE IF f = "error" THEN Returned(FALSE, "Fetch item_id failed", NULL)
  ELSE IF found = <<>> THEN Returned(FALSE, "Item belum terdaftar di master item", NULL)
  ELSE Returned(TRUE, "OK", Head(found).id)

\* table item_stock has a row for an (item, store, size) once a movement
\* of it was written
HasStockRow(ldg, item_id, store_id, size) ==
  \E i \in 1..Len(ldg) :
    ldg[i].item_id = item_id /\ ldg[i].store_id = store_id /\ ldg[i].size = size

\* mutant: an absent stock row is answered as a failure
get_item_qty_stock_by_item_id_AbsentFails(ldg, item_id, store_id, size, f) ==
  IF f = "raise" THEN Returned(FALSE, "str(e)", 0)
  ELSE IF f = "error" THEN Returned(FALSE, "Fetch stock failed", 0)
  ELSE IF ~HasStockRow(ldg, item_id, store_id, size) THEN Returned(FALSE, "No stock found", 0)
  ELSE Returned(TRUE, "Fetched", ItemStockQty(ldg, item_id, store_id, size))

get_item_qty_stock_by_item_id(ldg, item_id, store_id, size, f) ==
  IF f = "raise" THEN Returned(FALSE, "str(e)", 0)
  ELSE IF f = "error" THEN Returned(FALSE, "Fetch stock failed", 0)
  ELSE IF ~HasStockRow(ldg, item_id, store_id, size) THEN Returned(TRUE, "No stock found", 0)
  ELSE Returned(TRUE, "Fetched", ItemStockQty(ldg, item_id, store_id, size))

\* fitem, fstock: the outcome of the item query and of the item_stock query
get_item_qty_stock(its, ldg, row, store_id, size, fitem, fstock) ==
  LET found == ItemLookup(its, row) IN
  IF fitem = "raise" THEN Returned(FALSE, "str(e)", 0)
  ELSE IF fitem = "error" THEN Returned(FALSE, "Fetch item failed", 0)
  ELSE IF found = <<>> THEN Returned(TRUE, "Item not found", 0)
  ELSE get_item_qty_stock_by_item_id(ldg, Head(found).id, store_id, size, fstock)

\* the snapshot with the outcome of its item_stock query (fstock) and of its
\* item_price_current query (fprice): every failure is raised again
ItemsInStockOrRaise(its, prs, ldg, store_id, fstock, fprice) ==
  IF fstock # "none" THEN Escaped("Failed to get items in stock")
  ELSE IF StockRows(its, ldg, store_id) = {} THEN ReturnedBare(<<>>)
  ELSE IF fprice # "none" THEN Escaped("Failed to get items in stock")
  ELSE ReturnedBare(get_items_in_stock(its, prs, ldg, store_id))

\* a stock-out movement of the item at the warehouse, by item id
OutRow(item_id, size, q) ==
  [movement_type |-> "out", has_qty |-> TRUE, jumlah_barang |-> q,
   item_id |-> item_id, has_triple |-> FALSE, triple |-> <<NULL, NULL, NULL>>,
   store_id |-> WAREHOUSE_STORE_ID, has_size |-> TRUE, size |-> size]

\* one registered item, 0..MaxQty units of it put in stock at the warehouse,
\* 0..MaxQty units taken out again and 0..MaxQty units moved to store 1
InitOps ==
  LET o1 == insert_item(<<>>, <<>>, FirstItemRow, "none", 1) IN
  /\ items = o1.items
  /\ prices = o1.prices
  /\ clock = 1
  /\ last = NoCall
  /\ prev = NoCall
  /\ proc = <<>>
  /\ \E q \in 0..MaxQty, r \in 0..MaxQty, t \in 0..MaxQty :
       ledger = transfer_via_logs(o1.items,
                  insert_stock_log(o1.items,
                    insert_stock_log(o1.items, <<>>, InStockRow(1, "M", q), "none").ledger,
                    OutRow(1, "M", r), "none").ledger,
                  1, "M", WAREHOUSE_STORE_ID, 1, t, "none", "none").ledger
  /\ call = NoCall
  /\ dest = 1
  /\ rows = <<>>
  /\ keep = TRUE
  /\ attempt = NoCall
  /\ sub = NoCall
  /\ labels = NoLabels
  /\ form = NoCall
  /\ drive = <<>>

OpCall(op, args, fault, o) ==
  [op |-> op, args |-> args, fault |-> fault, outcome |-> o.outcome, has_ok |-> o.has_ok,
   ok |-> o.ok, msg |-> o.msg, value |-> o.value]

OpsFrame == UNCHANGED <<prices, clock, last, prev, proc, ledger, pageVars, auxVars>>

\* insert_row("item", row): a form-style insert
InsertRow ==
  /\ Len(items) < MaxCalls
  /\ \E t \in Triples, f \in CallFaults :
       LET o == insert_row(f)
           row == [category_id |-> t[1], item_name_id |-> t[2], color_id |-> t[3],
                   created_year |-> NULL]
       IN /\ items' = IF o.ok THEN ItemInsert(items, row) ELSE items
          /\ call' = OpCall("insert_row", <<t>>, f, o)
  /\ OpsFrame

IsExist ==
  /\ \E val \in {<<"a", "b">>, <<"C", "d">>}, f \in ExistFaults :
       call' = OpCall("is_exist", <<val>>, f,
                      is_exist(<<[item_name |-> <<"A", "b">>]>>, "item_name", val, f))
  /\ UNCHANGED items
  /\ OpsFrame

GetItemIdFromAttrs ==
  /\ \E t \in Triples, f \in CallFaults :
       call' = OpCall("get_item_id_from_attrs", <<t>>, f,
                 get_item_id_from_attrs(items,
                   [category_id |-> t[1], item_name_id |-> t[2], color_id |-> t[3]], f))
  /\ UNCHANGED items
  /\ OpsFrame

GetItemQtyStockByItemId ==
  /\ \E item_id \in 1..Len(items), size \in Sizes, f \in CallFaults :
       call' = OpCall("get_item_qty_stock_by_item_id", <<item_id, WAREHOUSE_STORE_ID, size>>, f,
                 get_item_qty_stock_by_item_id(ledger, item_id, WAREHOUSE_STORE_ID, size, f))
  /\ UNCHANGED items
  /\ OpsFrame

GetItemQtyStock ==
  /\ \E t \in Triples, size \in Sizes, fitem \in CallFaults, fstock \in CallFaults :
       LET row == [category_id |-> t[1], item_name_id |-> t[2], color_id |-> t[3]] IN
       \* an outcome is drawn only for a query that is made
       /\ fitem # "none" => fstock = "none"
       /\ (fstock # "none") => ItemLookup(items, row) # <<>>
       /\ call' = OpCall("get_item_qty_stock", <<t, WAREHOUSE_STORE_ID, size>>,
                     IF fitem # "none" THEN fitem ELSE fstock,
                     get_item_qty_stock(items, ledger, row, WAREHOUSE_STORE_ID, size,
                                        fitem, fstock))
  /\ UNCHANGED items
  /\ OpsFrame

GetItemsInStock ==
  /\ \E store_id \in {NULL, WAREHOUSE_STORE_ID, 1}, fstock \in CallFaults, fprice \in CallFaults :
       /\ fstock # "none" => fprice = "none"
       /\ fprice # "none" => StockRows(items, ledger, store_id) # {}
       /\ call' = OpCall("get_items_in_stock", <<store_id>>,
                     IF fstock # "none" THEN fstock ELSE fprice,
                     ItemsInStockOrRaise(items, prices, ledger, store_id, fstock, fprice))
  /\ UNCHANGED items
  /\ OpsFrame

NextOps ==
  \/ InsertRow
  \/ IsExist
  \/ GetItemIdFromAttrs
  \/ GetItemQtyStockByItemId
  \/ GetItemQtyStock
  \/ GetItemsInStock

SpecOps == InitOps /\ [][NextOps]_vars

\* ------------------------------------------------------------------------
\* Input_Data_Baru: the category, color and item-name forms
\* ------------------------------------------------------------------------

\* the texts typed into a name field: empty, too short, two spellings of
\* one label that differ in case only, another label, a forbidden character
NameInputs ==
  {<<>>, <<"a">>, <<"a", "b">>, <<"A", "b">>, <<"a", "B">>, <<"c", "d">>, <<"a", "!">>}

\* item names may also hold "_" and digits
ItemNameInputs == NameInputs \cup {<<"a", "_">>, <<"a", "1">>}

CodeInputs == {<<>>, <<"a">>, <<"a", "b">>, <<"A", "B">>, <<"c", "d">>, <<"a", "1">>}

\* outcome of the query of is_exist during validation: the store client
\* answers or raises
ExistAnswers == {"none", "raise"}

Verdict(valid, raised) == [valid |-> valid, raised |-> raised]

validate_category_name(tbl, val, f) ==
  LET e == is_exist(tbl, "category", Title(val), f) IN
  IF e.outcome = "raised" THEN Verdict(FALSE, TRUE)
  ELSE IF e.value = 1 THEN Verdict(FALSE, FALSE)
  ELSE IF val = <<>> THEN Verdict(FALSE, FALSE)
  ELSE Verdict(MatchesName(val), FALSE)

validate_category_code(tbl, val, f) ==
  IF val = <<>> THEN Verdict(FALSE, FALSE)
  ELSE IF ~MatchesCode(val) THEN Verdict(FALSE, FALSE)
  ELSE LET e == is_exist(tbl, "code", Upper(val), f) IN
       IF e.outcome = "raised" THEN Verdict(FALSE, TRUE)
       ELSE Verdict(e.value = 0, FALSE)

validate_color_name(tbl, val, f) ==
  IF val = <<>> THEN Verdict(FALSE, FALSE)
  ELSE IF ~MatchesName(val) THEN Verdict(FALSE, FALSE)
  ELSE LET e == is_exist(tbl, "color", Title(val), f) IN
       IF e.outcome = "raised" THEN Verdict(FALSE, TRUE)
       ELSE Verdict(e.value = 0, FALSE)

validate_item_name(tbl, val, f) ==
  IF val = <<>> THEN Verdict(FALSE, FALSE)
  ELSE IF ~MatchesItemName(val) THEN Verdict(FALSE, FALSE)
  ELSE LET e == is_exist(tbl, "item_name", Title(val), f) IN
       IF e.outcome = "raised" THEN Verdict(FALSE, TRUE)
       ELSE Verdict(e.value = 0, FALSE)

InitLabels ==
  /\ items = <<>>
  /\ prices = <<>>
  /\ clock = 0
  /\ last = NoCall
  /\ prev = NoCall
  /\ proc = <<>>
  /\ ledger = <<>>
  /\ call = NoCall
  /\ dest = 1
  /\ rows = <<>>
  /\ keep = TRUE
  /\ attempt = NoCall
  /\ sub = NoCall
  /\ labels = NoLabels
  /\ form = NoCall
  /\ drive = <<>>

LabelsFrame == UNCHANGED <<storeVars, ledgerVars, pageVars, drive>>

LabelRows == Len(labels.category) + Len(labels.color) + Len(labels.item_name)

\* what a form submission leaves: the confirmation dialog when the input is
\* valid, nothing when it is not or when validation raised
AfterValidation(name, value, valid, raised) ==
  IF raised THEN [op |-> "exception", name |-> name, value |-> value]
  ELSE IF valid THEN [op |-> "dialog", name |-> name, value |-> value, error |-> FALSE]
  ELSE [op |-> "rejected", name |-> name, value |-> value]

\* the dialog is modal: a form is submitted only while no dialog is open
SubmitCategory ==
  /\ form.op # "dialog"
  /\ LabelRows < MaxOps
  /\ \E cat_name_input \in NameInputs, cat_code_input \in CodeInputs,
        f1 \in ExistAnswers, f2 \in ExistAnswers :
       LET vn == validate_category_name(labels.category, cat_name_input, f1)
           vc == IF vn.raised THEN Verdict(FALSE, FALSE)
                 ELSE validate_category_code(labels.category, cat_code_input, f2)
       IN
       \* an outcome is drawn only for a query that is made
       /\ vn.raised => f2 = "none"
       /\ (f2 = "raise") => vc.raised
       /\ form' = AfterValidation("category",
                     [category |-> cat_name_input, code |-> Upper(cat_code_input)],
                     vn.valid /\ vc.valid, vn.raised \/ vc.raised)
  /\ UNCHANGED labels
  /\ LabelsFrame

SubmitColor ==
  /\ form.op # "dialog"
  /\ LabelRows < MaxOps
  /\ \E color_name_input \in NameInputs, f \in ExistAnswers :
       LET v == validate_color_name(labels.color, color_name_input, f) IN
       /\ (f = "raise") => v.raised
       /\ form' = AfterValidation("color", [color |-> color_name_input], v.valid, v.raised)
  /\ UNCHANGED labels
  /\ LabelsFrame

SubmitItemName ==
  /\ form.op # "dialog"
  /\ LabelRows < MaxOps
  /\ \E item_name_input \in ItemNameInputs, f \in ExistAnswers :
       LET v == validate_item_name(labels.item_name, item_name_input, f) IN
       /\ (f = "raise") => v.raised
       /\ form' = AfterValidation("item_name", [item_name |-> item_name_input],
                                  v.valid, v.raised)
  /\ UNCHANGED labels
  /\ LabelsFrame

\* button "Ya" of the dialog: insert_row(name, value)
ConfirmYes ==
  /\ form.op = "dialog"
  /\ \E f \in CallFaults :
       LET o == insert_row(f) IN
       IF o.ok
         THEN /\ labels' = [labels EXCEPT ![form.name] = Append(@, form.value)]
              /\ form' = [op |-> "inserted", name |-> form.name, value |-> form.value]
         ELSE /\ labels' = labels
              /\ form' = [form EXCEPT !.error = TRUE]
  /\ LabelsFrame

\* button "Tidak" of the dialog
ConfirmNo ==
  /\ form.op = "dialog"
  /\ form' = NoCall
  /\ UNCHANGED labels
  /\ LabelsFrame

NextLabels ==
  \/ SubmitCategory
  \/ SubmitColor
  \/ SubmitItemName
  \/ ConfirmYes
  \/ ConfirmNo

SpecLabels == InitLabels /\ [][NextLabels]_vars

\* ------------------------------------------------------------------------
\* Update Stock page (pages/2_Update_Stock_Barang.py)
\* ------------------------------------------------------------------------

GUDANG_STORE_ID == WAREHOUSE_STORE_ID

\* st.session_state of the page after its first run; `checked` remembers the
\* arguments and the answer of the last stock read stored in item_stock_val
UpdateDefaults ==
  [op |-> "update_stock",
   category |-> NULL, item_name |-> NULL, color |-> NULL, size |-> "OS",
   item_id |-> NULL, item_stock_val |-> NoCall, valid_item_detail |-> FALSE,
   stock_update_state |-> FALSE, dialog |-> NoCall, checked |-> NoCall]

InitUpdate ==
  LET o1 == insert_item(<<>>, <<>>, FirstItemRow, "none", 1) IN
  /\ items = o1.items
  /\ prices = o1.prices
  /\ clock = 1
  /\ last = NoCall
  /\ prev = NoCall
  /\ proc = <<>>
  /\ \E q \in 0..MaxQty :
       ledger = insert_stock_log(o1.items, <<>>, InStockRow(1, "M", q), "none").ledger
  /\ call = NoCall
  /\ dest = 1
  /\ rows = <<>>
  /\ keep = TRUE
  /\ attempt = NoCall
  /\ sub = NoCall
  /\ labels = NoLabels
  /\ form = UpdateDefaults
  /\ drive = <<>>

UpdateFrame == UNCHANGED <<storeVars, call, pageVars, labels, drive>>

\* the selectboxes are outside the form: a change reruns the script, which
\* runs neither the check handler nor the submit handler
ChangeCategory ==
  /\ form.dialog = NoCall
  /\ \E v \in {NULL, 1} : v # form.category /\ form' = [form EXCEPT !.category = v]
  /\ UNCHANGED ledger
  /\ UpdateFrame

ChangeItemName ==
  /\ form.dialog = NoCall
  /\ \E v \in {NULL} \cup (1..NumNames) :
       v # form.item_name /\ form' = [form EXCEPT !.item_name = v]
  /\ UNCHANGED ledger
  /\ UpdateFrame

ChangeColor ==
  /\ form.dialog = NoCall
  /\ \E v \in {NULL, 1} : v # form.color /\ form' = [form EXCEPT !.color = v]
  /\ UNCHANGED ledger
  /\ UpdateFrame

ChangeUkuran ==
  /\ form.dialog = NoCall
  /\ \E v \in Sizes : v # form.size /\ form' = [form EXCEPT !.size = v]
  /\ UNCHANGED ledger
  /\ UpdateFrame

\* button "Cek Jumlah Barang di Gudang"
CheckStock ==
  /\ form.dialog = NoCall
  /\ \E fitem \in CallFaults, fstock \in CallFaults :
       LET cleared == [form EXCEPT !.stock_update_state = FALSE]
           missing == form.category = NULL \/ form.item_name = NULL \/ form.color = NULL
           oi == get_item_id_from_attrs(items,
                   [category_id |-> form.category, item_name_id |-> form.item_name,
                    color_id |-> form.color], fitem)
           os == get_item_qty_stock_by_item_id(ledger, oi.value, GUDANG_STORE_ID,
                                               form.size, fstock)
       IN
       \* an outcome is drawn only for a read that is made
       /\ missing => fitem = "none"
       /\ (missing \/ ~oi.ok \/ oi.value = NULL) => fstock = "none"
       /\ form' =
            IF missing THEN cleared
            ELSE IF ~oi.ok \/ oi.value = NULL
              THEN [cleared EXCEPT !.valid_item_detail = FALSE, !.item_stock_val = NoCall]
            ELSE [cleared EXCEPT
                    !.item_id = oi.value,
                    !.item_stock_val = [ok |-> os.ok, qty |-> os.value],
                    !.valid_item_detail = TRUE,
                    !.checked = [item_id |-> oi.value, size |-> form.size,
                                 ok |-> os.ok, qty |-> os.value]]
  /\ UNCHANGED ledger
  /\ UpdateFrame

\* the payload of the submit handler
UpdatePayload(item_id, size, qty) ==
  [movement_type |-> IF qty < 0 THEN "adjustment" ELSE "in_stock",
   has_qty |-> TRUE, jumlah_barang |-> qty,
   item_id |-> item_id, has_triple |-> FALSE, triple |-> <<NULL, NULL, NULL>>,
   store_id |-> GUDANG_STORE_ID, has_size |-> TRUE, size |-> size]

\* "Submit" of update_stock_input_form with the entered quantity
SubmitUpdate ==
  /\ form.dialog = NoCall
  /\ Len(ledger) < MaxOps
  /\ \E qty \in -MaxQty..MaxQty :
       LET current_stock == IF form.item_stock_val # NoCall THEN form.item_stock_val.qty ELSE 0
       IN
       form' =
         IF ~form.valid_item_detail \/ form.item_id = NULL THEN [form EXCEPT !.dialog = NoCall]
         ELSE IF qty = 0 THEN [form EXCEPT !.dialog = NoCall]
         ELSE IF current_stock + qty < 0 THEN [form EXCEPT !.dialog = NoCall]
         ELSE [form EXCEPT !.dialog = UpdatePayload(form.item_id, form.size, qty)]
  /\ UNCHANGED ledger
  /\ UpdateFrame

\* button "Ya" of the dialog: insert_stock_log(value)
UpdateYa ==
  /\ form.dialog # NoCall
  /\ \E f \in {"none", "insert"} :
       LET o == insert_stock_log(items, ledger, form.dialog, f) IN
       /\ ledger' = o.ledger
       /\ form' = IF o.ok THEN [form EXCEPT !.stock_update_state = TRUE, !.dialog = NoCall]
                  ELSE form
  /\ UpdateFrame

\* button "Tidak" of the dialog
UpdateTidak ==
  /\ form.dialog # NoCall
  /\ form' = [form EXCEPT !.dialog = NoCall]
  /\ UNCHANGED ledger
  /\ UpdateFrame

NextUpdate ==
  \/ ChangeCategory
  \/ ChangeItemName
  \/ ChangeColor
  \/ ChangeUkuran
  \/ CheckStock
  \/ SubmitUpdate
  \/ UpdateYa
  \/ UpdateTidak

SpecUpdate == InitUpdate /\ [][NextUpdate]_vars

\* ------------------------------------------------------------------------
\* New-item page (pages/1_Input_Item_List_Baru.py)
\* ------------------------------------------------------------------------

\* the payload of item_list_input_form: the selected triple, the costs, the
\* size and the quantity (number_input with min_value 0)
NewItemPayloads ==
  {[row |-> r, size |-> sz, jumlah_barang |-> q] :
     r \in {FirstItemRow, [FirstItemRow EXCEPT !.cost.harga_kain = 120], SecondItemRow},
     sz \in Sizes, q \in 0..MaxQty}

\* {**value, "item_id": item_id}
ValueWithItemId(value, item_id) ==
  [movement_type |-> "in_stock", has_qty |-> TRUE, jumlah_barang |-> value.jumlah_barang,
   item_id |-> item_id, has_triple |-> TRUE,
   triple |-> <<value.row.category_id, value.row.item_name_id, value.row.color_id>>,
   store_id |-> 4, has_size |-> TRUE, size |-> value.size]

StockLogged_EvenFailed(ret, value) == value.jumlah_barang # 0

\* the stock log is written after insert_item succeeded with an item id, and
\* only for a quantity other than 0
StockLogged(ret, value) ==
  ret.ok /\ ret.item_id # NULL /\ value.jumlah_barang # 0

InitNewItem ==
  /\ items = <<>>
  /\ prices = <<>>
  /\ clock = 0
  /\ last = NoCall
  /\ prev = NoCall
  /\ proc = <<>>
  /\ ledger = <<>>
  /\ call = NoCall
  /\ dest = 1
  /\ rows = <<>>
  /\ keep = TRUE
  /\ attempt = NoCall
  /\ sub = NoCall
  /\ labels = NoLabels
  /\ form = [op |-> "new_item", dialog |-> NoCall, item_list_input_state |-> FALSE]
  /\ drive = <<>>

NewItemFrame == UNCHANGED <<prev, proc, call, pageVars, labels, drive>>

\* "Submit" of item_list_input_form: the dialog opens when category, item
\* name and color are selected
SubmitNewItem ==
  /\ form.dialog = NoCall
  /\ \E value \in NewItemPayloads, selected \in BOOLEAN :
       form' = [form EXCEPT !.dialog = IF selected THEN value ELSE NoCall]
  /\ last' = NoCall
  /\ UNCHANGED <<items, prices, clock, ledger>>
  /\ NewItemFrame

\* button "Ya" of the dialog
NewItemYa ==
  /\ form.dialog # NoCall
  /\ clock < MaxCalls
  /\ \E f \in StoreFaults, flog \in {"none", "insert"} :
       LET value == form.dialog
           one == insert_item(items, prices, value.row, f, clock + 1)
           item_id == one.ret.item_id
           stops == ~one.ret.ok \/ item_id = NULL
           logs == StockLogged(one.ret, value)
           two == insert_stock_log(one.items, ledger, ValueWithItemId(value, item_id), flog)
       IN
       \* an outcome is drawn only for a write that is made
       /\ ~logs => flog = "none"
       /\ items' = one.items
       /\ prices' = one.prices
       /\ ledger' = IF logs THEN two.ledger ELSE ledger
       /\ form' = IF stops THEN form
                  ELSE [form EXCEPT !.dialog = NoCall, !.item_list_input_state = TRUE]
       /\ last' = [op |-> "confirm_yes", value |-> value,
                   ins_status_one |-> one.ret.ok, item_id |-> item_id,
                   price_id |-> one.ret.price_id,
                   logged |-> logs, ins_status_two |-> logs /\ two.ok,
                   item_is_new |-> one.item_is_new, n_before |-> Len(ledger)]
  /\ clock' = clock + 1
  /\ NewItemFrame

\* button "Tidak" of the dialog
NewItemTidak ==
  /\ form.dialog # NoCall
  /\ form' = [form EXCEPT !.dialog = NoCall, !.item_list_input_state = FALSE]
  /\ last' = NoCall
  /\ UNCHANGED <<items, prices, clock, ledger>>
  /\ NewItemFrame

NextNewItem == SubmitNewItem \/ NewItemYa \/ NewItemTidak

SpecNewItem == InitNewItem /\ [][NextNewItem]_vars

\* ------------------------------------------------------------------------
\* Barcode images in the Drive folder (services/barcode_service.py)
\* ------------------------------------------------------------------------

\* default of the parameter max_download_retries
DEFAULT_MAX_DOWNLOAD_RETRIES == 3

\* the folder is the sequence of the names of its files; the id of a file is
\* its position. find_file_in_folder_by_name: the first file of that name
find_file_in_folder_by_name(drv, filename) ==
  IF \E i \in 1..Len(drv) : drv[i] = filename
    THEN CHOOSE i \in 1..Len(drv) :
           drv[i] = filename /\ \A j \in 1..(i - 1) : drv[j] # filename
    ELSE NULL

upload_file_to_folder(drv, filename) == Append(drv, filename)

RECURSIVE DownloadLoop_NoBreak(_, _, _)
DownloadLoop_NoBreak(attempt_no, max_download_retries, outcomes) ==
  IF attempt_no > max_download_retries
    THEN [content |-> \E j \in 1..max_download_retries : outcomes[j],
          attempts |-> attempt_no - 1]
    ELSE DownloadLoop_NoBreak(attempt_no + 1, max_download_retries, outcomes)

\* the retry loop: outcomes[k] tells whether the k-th requests.get succeeds
RECURSIVE DownloadLoop(_, _, _)
DownloadLoop(attempt_no, max_download_retries, outcomes) ==
  IF attempt_no > max_download_retries
    THEN [content |-> FALSE, attempts |-> attempt_no - 1]
  ELSE IF outcomes[attempt_no]
    THEN [content |-> TRUE, attempts |-> attempt_no]
  ELSE DownloadLoop(attempt_no + 1, max_download_retries, outcomes)

DriveFaults == {"none", "find_raise", "upload_raise", "permission_raise"}

\* result: <<>> is None, otherwise the sequence of one BarcodeResult
SbOut(drv, outcome, result, attempts) ==
  [drive |-> drv, outcome |-> outcome, result |-> result, attempts |-> attempts]

BarcodeResult(file_id) == [file_id |-> file_id, public_url |-> <<"uc?id=", file_id>>]

save_barcode_to_folder(drv, qr, max_download_retries, outcomes, f) ==
  IF qr = NULL THEN SbOut(drv, "raised", <<>>, 0)
  ELSE IF f = "find_raise" THEN SbOut(drv, "raised", <<>>, 0)
  ELSE
    LET existing == find_file_in_folder_by_name(drv, qr) IN
    IF existing # NULL
      THEN IF f = "permission_raise" THEN SbOut(drv, "raised", <<>>, 0)
           ELSE SbOut(drv, "returned", <<BarcodeResult(existing)>>, 0)
    ELSE
      LET d == DownloadLoop(1, max_download_retries, outcomes) IN
      IF ~d.content THEN SbOut(drv, "returned", <<>>, d.attempts)
      ELSE IF f = "upload_raise" THEN SbOut(drv, "raised", <<>>, d.attempts)
      ELSE LET drv2 == upload_file_to_folder(drv, qr) IN
           IF f = "permission_raise" THEN SbOut(drv2, "raised", <<>>, d.attempts)
           ELSE SbOut(drv2, "returned", <<BarcodeResult(Len(drv2))>>, d.attempts)

\* get_barcode_url_list from line i on; ins[i] holds the download outcomes
\* and the Drive fault of line i
RECURSIVE BarcodeLoop(_, _, _, _, _)
BarcodeLoop(i, lines, ins, drv, barcode_url) ==
  IF i > Len(lines) THEN [drive |-> drv, outcome |-> "returned", barcodes |-> barcode_url]
  ELSE LET o == save_barcode_to_folder(drv, lines[i], DEFAULT_MAX_DOWNLOAD_RETRIES,
                                       ins[i].outcomes, ins[i].fault)
       IN IF o.outcome = "raised"
            THEN [drive |-> o.drive, outcome |-> "raised", barcodes |-> <<>>]
            ELSE BarcodeLoop(i + 1, lines, ins, o.drive, Append(barcode_url, o.result))

get_barcode_url_list(lines, ins, drv) == BarcodeLoop(1, lines, ins, drv, <<>>)

\* the SKUs of order lines
BarcodeSkus == {1, 2}

InitBarcode ==
  /\ items = <<>>
  /\ prices = <<>>
  /\ clock = 0
  /\ last = NoCall
  /\ prev = NoCall
  /\ proc = <<>>
  /\ ledger = <<>>
  /\ call = NoCall
  /\ dest = 1
  /\ rows = <<>>
  /\ keep = TRUE
  /\ attempt = NoCall
  /\ sub = NoCall
  /\ labels = NoLabels
  /\ form = NoCall
  /\ drive = <<>>

BarcodeFrame == UNCHANGED <<storeVars, ledger, pageVars, labels, form>>

SaveBarcodeToFolder ==
  /\ \E qr \in BarcodeSkus \cup {NULL},
        max_download_retries \in 0..DEFAULT_MAX_DOWNLOAD_RETRIES,
        f \in DriveFaults :
     \E outcomes \in [1..max_download_retries -> BOOLEAN] :
       LET o == save_barcode_to_folder(drive, qr, max_download_retries, outcomes, f) IN
       /\ drive' = o.drive
       /\ call' = [op |-> "save_barcode_to_folder", qr |-> qr,
                   max_download_retries |-> max_download_retries,
                   outcomes |-> outcomes, fault |-> f,
                   existed |-> qr # NULL /\ find_file_in_folder_by_name(drive, qr) # NULL,
                   outcome |-> o.outcome, result |-> o.result, attempts |-> o.attempts,
                   n_before |-> Len(drive)]
  /\ BarcodeFrame

\* per line: every download fails, the first one succeeds, or the first one
\* succeeds and the upload raises
LineInputs ==
  {[outcomes |-> [k \in 1..DEFAULT_MAX_DOWNLOAD_RETRIES |-> FALSE], fault |-> "none"],
   [outcomes |-> [k \in 1..DEFAULT_MAX_DOWNLOAD_RETRIES |-> TRUE], fault |-> "none"],
   [outcomes |-> [k \in 1..DEFAULT_MAX_DOWNLOAD_RETRIES |-> TRUE], fault |-> "upload_raise"]}

GetBarcodeUrlList ==
  /\ \E n \in 1..MaxRows :
     \E lines \in [1..n -> BarcodeSkus], ins \in [1..n -> LineInputs] :
       LET o == get_barcode_url_list(lines, ins, drive) IN
       /\ drive' = o.drive
       /\ call' = [op |-> "get_barcode_url_list", lines |-> lines, ins |-> ins,
                   outcome |-> o.outcome, barcodes |-> o.barcodes, n_before |-> Len(drive)]
  /\ BarcodeFrame

NextBarcode == SaveBarcodeToFolder \/ GetBarcodeUrlList

SpecBarcode == InitBarcode /\ [][NextBarcode]_vars

\* ------------------------------------------------------------------------
\* Properties of the reconciler
\* ------------------------------------------------------------------------
ItemIds == 1..Len(items)

OpenVersions(item_id) ==
  {i \in 1..Len(prices) : prices[i].item_id = item_id /\ prices[i].valid_to = NULL}

\* two successful calls in a row on one triple, the first on an item without
\* any price version, with different cost components
TwoCallsChanged ==
  /\ prev.op = "insert_item" /\ last.op = "insert_item"
  /\ prev.ret.ok /\ last.ret.ok
  /\ prev.triple = last.triple
  /\ prev.versions_before = 0
  /\ prev.cost # last.cost

\* C1: reconciling an item with cost components C1 and then with C2 # C1,
\* every store call succeeding, leaves exactly two price versions of the
\* item: the C1 version closed and the C2 version open.
C1_TwoVersions ==
  TwoCallsChanged =>
    LET vs == VersionsOf(prices, last.ret.item_id) IN
      /\ Len(vs) = 2
      /\ vs[1].cost = prev.cost /\ vs[1].valid_to # NULL
      /\ vs[2].cost = last.cost /\ vs[2].valid_to = NULL

C1_Witness ==
  /\ TwoCallsChanged
  /\ prev.cost["ongkos_packing"] # last.cost["ongkos_packing"]
  /\ Len(VersionsOf(prices, last.ret.item_id)) = 2

\* C2: a second insert_item call with the same triple and the same four cost
\* components, right after a successful one, writes nothing (no item row, no
\* price version, no valid_to update) and, when its store calls succeed,
\* returns price_changed = false with the version that is still open.
C2_Idempotent ==
  [][(/\ last.op = "insert_item" /\ last.ret.ok
      /\ last'.op = "insert_item"
      /\ last'.triple = last.triple /\ last'.cost = last.cost)
     => /\ items' = items
        /\ prices' = prices
        /\ last'.ret.ok =>
             /\ ~last'.ret.price_changed
             /\ OpenVersions(last'.ret.item_id) = {last'.ret.price_id}]_vars

C2_Witness ==
  /\ prev.op = "insert_item" /\ last.op = "insert_item"
  /\ prev.ret.ok /\ last.ret.ok
  /\ prev.triple = last.triple /\ prev.cost = last.cost
  /\ ~last.ret.price_changed
  /\ Len(prices) = 1

\* C3: whatever insert_item calls were made, failed store calls included,
\* every item has at most one price version whose valid_to is unset.
C3_AtMostOneOpen ==
  \A id \in ItemIds : Cardinality(OpenVersions(id)) <= 1

C3_Witness ==
  \E id \in ItemIds :
    /\ Len(VersionsOf(prices, id)) = 2
    /\ Cardinality(OpenVersions(id)) = 1

TripleOf(r) == <<r.category_id, r.item_name_id, r.color_id>>

UniqueTriples(its) ==
  \A i, j \in 1..Len(its) : TripleOf(its[i]) = TripleOf(its[j]) => i = j

\* C11: under insert_item calls made one after another no two item rows
\* share their (category_id, item_name_id, color_id); a call adds at most one
\* item row, only for a triple no row had before the call, and leaves every
\* existing item row as it was.
C11_TripleUnique ==
  /\ []UniqueTriples(items)
  /\ [][\/ items' = items
        \/ /\ Len(items') = Len(items) + 1
           /\ SubSeq(items', 1, Len(items)) = items
           /\ TripleOf(items'[Len(items')]) = last'.triple
           /\ \A i \in 1..Len(items) : TripleOf(items[i]) # last'.triple]_vars

C11_Witness ==
  /\ prev.op = "insert_item" /\ last.op = "insert_item"
  /\ prev.item_is_new /\ ~last.item_is_new /\ last.ret.ok
  /\ prev.triple = last.triple /\ prev.cost # last.cost
  /\ Len(items) = 1

OpenIn(prs, id) == {prs[i].id : i \in {j \in 1..Len(prs) : prs[j].item_id = id /\ prs[j].valid_to = NULL}}

\* C13: an insert_item call inserts a price version only when the item has
\* no open version or a cost component differs from the open one, and no
\* call, failed store calls included, leaves an item that had an open
\* version without one.
C13_OpenCloseOneStep ==
  [][/\ Len(prices') > Len(prices) =>
          LET new == prices'[Len(prices')]
              cur == PriceCurrent(prices, new.item_id)
          IN cur = <<>> \/ ~SamePrice(Head(cur), new.cost)
     /\ \A id \in 1..Len(items) :
          OpenIn(prices, id) # {} => OpenIn(prices', id) # {}]_vars

\* C14: when an insert_item call has created the item row and its price
\* lookup or price insert then fails, the call returns failure together with
\* the created item, the item row is in the store and the item has no price
\* version.
C14_PartialWriteReported ==
  (/\ last.op = "insert_item" /\ last.item_is_new /\ ~last.ret.ok
   /\ last.ret.msg # "Insert item failed: no data returned") =>
    /\ last.ret.val = "item"
    /\ last.ret.item_id = Len(items)
    /\ TripleOf(items[Len(items)]) = last.triple
    /\ VersionsOf(prices, Len(items)) = <<>>

\* C12: nothing protects the check-then-write steps of insert_item: when two
\* calls on one triple are interleaved, both having looked before either
\* wrote and the store rejecting no write, the triple ends with two item rows
\* (both found no item) or the item ends with two open price versions (both
\* saw the same open version, or both saw none).
C12_RaceOutcome ==
  \A p, q \in Procs :
    (p # q /\ proc[p].pc = "done" /\ proc[q].pc = "done" /\ proc[p].ok /\ proc[q].ok) =>
      /\ (proc[p].item_is_new /\ proc[q].item_is_new) => ~UniqueTriples(items)
      /\ (/\ proc[p].item_id = proc[q].item_id
          /\ proc[p].price_changed /\ proc[q].price_changed
          /\ proc[p].seen = proc[q].seen)
           => Cardinality(OpenVersions(proc[p].item_id)) = 2

C12_Witness ==
  /\ proc # <<>>
  /\ \A p \in Procs : proc[p].pc = "done" /\ proc[p].ok /\ proc[p].price_changed
  /\ proc[1].seen = 1 /\ proc[2].seen = 1
  /\ Len(items) = 1
  /\ Cardinality(OpenVersions(1)) = 2

\* the positions of the rows with Quantity > 0, in input order
KeptRows(order_rows) ==
  SelectSeq([i \in 1..Len(order_rows) |-> i], LAMBDA i : order_rows[i].Quantity > 0)

RECURSIVE SumLineTotals(_)
SumLineTotals(lines) ==
  IF lines = <<>> THEN 0 ELSE Head(lines).line_total + SumLineTotals(Tail(lines))

\* C19: the order built from the UI rows has one line for each input row
\* with Quantity > 0 and no other, in input order; a line's line_total is its
\* unit_price times its qty, a missing unit price counting as 0, and
\* grand_total is the sum of the line totals.
C19_BuildOrder ==
  call.op = "build" =>
    LET rs == call.order_rows
        ls == call.order.lines
        kept == KeptRows(rs)
    IN
      /\ Len(ls) = Len(kept)
      /\ \A k \in 1..Len(ls) :
           /\ ls[k].index = kept[k]
           /\ ls[k].qty = rs[kept[k]].Quantity
           /\ ls[k].unit_price =
                (IF rs[kept[k]].UnitPrice = NULL THEN 0 ELSE rs[kept[k]].UnitPrice)
           /\ ls[k].line_total = ls[k].unit_price * ls[k].qty
      /\ call.order.grand_total = SumLineTotals(ls)

C19_Witness ==
  /\ call.op = "build"
  /\ Len(call.order_rows) = 2
  /\ call.order_rows[1].Quantity = 0
  /\ call.order_rows[2].Quantity = 2 /\ call.order_rows[2].UnitPrice = 25
  /\ Len(call.order.lines) = 1
  /\ call.order.grand_total = 50

\* the store operations of SpecOps
LookupOps ==
  {"insert_row", "is_exist", "get_item_id_from_attrs", "get_item_qty_stock_by_item_id",
   "get_item_qty_stock", "get_items_in_stock"}

\* C20: a store operation one of whose store calls failed returns, with an
\* indicator saying failure and a message; it neither returns success or a
\* bare value nor lets an exception out.
C20_ExplicitFailure ==
  (call.op \in LookupOps /\ call.fault # "none") =>
    /\ call.outcome = "returned"
    /\ call.has_ok /\ ~call.ok
    /\ call.msg # ""

\* the item of a quantity read: given by id, or resolved from the triple
\* (NULL when no item row has the triple)
ReadItem(c) ==
  IF c.op = "get_item_qty_stock_by_item_id" THEN c.args[1]
  ELSE LET found == SelectSeq(items, LAMBDA r : TripleOf(r) = c.args[1]) IN
       IF found = <<>> THEN NULL ELSE Head(found).id

\* C21: a quantity read whose store calls succeed returns success; it
\* returns 0 when table item_stock has no row for the (item, store, size)
\* and the quantity of that row otherwise.
C21_QuantityRead ==
  (/\ call.op \in {"get_item_qty_stock", "get_item_qty_stock_by_item_id"}
   /\ call.fault = "none") =>
    /\ call.outcome = "returned" /\ call.has_ok /\ call.ok
    /\ IF ReadItem(call) # NULL /\ HasStockRow(ledger, ReadItem(call), call.args[2], call.args[3])
         THEN call.value = ItemStockQty(ledger, ReadItem(call), call.args[2], call.args[3])
         ELSE call.value = 0

C21_Witness ==
  /\ call.op = "get_item_qty_stock" /\ call.fault = "none"
  /\ ReadItem(call) = 1 /\ call.args[3] = "OS"
  /\ call.ok /\ call.value = 0 /\ call.msg = "No stock found"
  /\ ItemStockQty(ledger, 1, WAREHOUSE_STORE_ID, "M") > 0

\* C24: after successful insert_stock_log and transfer_via_logs calls on an
\* empty ledger the summed quantity of every (item, store, size) is >= 0.
\* Stated for the first call that writes: it succeeded and the ledger was
\* empty before it.
C24_NonNegativeStock ==
  (/\ call.op \in {"insert_stock_log", "transfer_via_logs"}
   /\ call.ok /\ call.n_before = 0) =>
    \A i \in 1..Len(items), st \in Stores, sz \in Sizes :
      ItemStockQty(ledger, i, st, sz) >= 0

\* C25: on the Update Stock page a movement stands in the confirmation
\* dialog only if a check was stored before, its quantity is not zero, it is
\* for the item and the size that were checked, the checked quantity plus the
\* entered one is >= 0, a negative quantity is an adjustment and a positive
\* one an in_stock, and the store is the warehouse.
C25_ConfirmedMovementChecked ==
  (form.op = "update_stock" /\ form.dialog # NoCall) =>
    /\ form.checked # NoCall
    /\ form.dialog.jumlah_barang # 0
    /\ form.dialog.item_id = form.checked.item_id
    /\ form.dialog.size = form.checked.size
    /\ form.checked.qty + form.dialog.jumlah_barang >= 0
    /\ form.dialog.movement_type =
         (IF form.dialog.jumlah_barang < 0 THEN "adjustment" ELSE "in_stock")
    /\ form.dialog.store_id = WAREHOUSE_STORE_ID

\* the item_stock rows a snapshot for store_id covers: all stores when no
\* store is given
ScopeOf(store_id) == IF store_id = NULL THEN Stores ELSE {store_id}

PositiveStores(ldg, item_id, size, store_id) ==
  {s \in ScopeOf(store_id) : ItemStockQty(ldg, item_id, s, size) > 0}

EqualIgnoringCase(s1, s2) ==
  /\ Len(s1) = Len(s2)
  /\ \A i \in 1..Len(s1) : LowerChar(s1[i]) = LowerChar(s2[i])

UniqueIgnoringCase(tbl, col_name) ==
  \A i, j \in 1..Len(tbl) :
    EqualIgnoringCase(tbl[i][col_name], tbl[j][col_name]) => i = j

MovementRow(item_id, store_id, size, movement_type, quantity) ==
  [item_id |-> item_id, store_id |-> store_id, size |-> size,
   movement_type |-> movement_type, quantity |-> quantity]

C5_NoRollback ==
  [][(call'.op = "transfer_via_logs" /\ call'.fault = "transfer_in") =>
       LET c == call' IN
         /\ ~c.ok
         /\ ledger' = Append(ledger,
              MovementRow(c.item_id, c.from_store_id, c.size, "transfer_out", -c.quantity))
         /\ ItemStockQty(ledger', c.item_id, c.from_store_id, c.size)
              = ItemStockQty(ledger, c.item_id, c.from_store_id, c.size) - c.quantity
         /\ \A st \in Stores, sz \in Sizes :
              ItemStockQty(ledger', c.item_id, st, sz) <= ItemStockQty(ledger, c.item_id, st, sz)]_vars

C5_Witness ==
  /\ call.op = "transfer_via_logs" /\ call.fault = "transfer_in"
  /\ ~call.ok
  /\ Len(ledger) = call.n_before + 1
  /\ ledger[Len(ledger)].movement_type = "transfer_out"

\* C15: the ledger only grows at its end: every operation leaves the rows
\* already there as they were and in their order, a successful
\* insert_stock_log call appends exactly one row and a rejected or failed
\* one appends none.
C15_AppendOnly ==
  [][/\ Len(ledger') >= Len(ledger)
     /\ SubSeq(ledger', 1, Len(ledger)) = ledger
     /\ call'.op = "insert_stock_log" =>
          IF call'.ok THEN Len(ledger') = Len(ledger) + 1 ELSE ledger' = ledger]_vars

C15_Witness ==
  /\ call.op = "insert_stock_log" /\ call.ok
  /\ call.n_before = 1
  /\ Len(ledger) = 2
  /\ ledger[1].movement_type = "transfer_out"

\* C16: an insert_stock_log call with a movement_type outside the five
\* kinds, or without item_id and with a triple no item row has, returns
\* ok = False with a message and writes no ledger row; the unknown triple is
\* answered with the not-found message once the earlier validations passed
\* and the lookup answered.
C16_Rejections ==
  call.op = "insert_stock_log" =>
    /\ call.movement_type \notin MovementTypes =>
         /\ ~call.ok /\ call.msg = "Invalid movement_type"
         /\ Len(ledger) = call.n_before
    /\ (call.by_triple /\ ~call.found) =>
         /\ ~call.ok /\ call.msg # ""
         /\ Len(ledger) = call.n_before
         /\ (call.movement_type \in MovementTypes /\ call.has_qty /\ call.quantity # 0)
              => call.msg \in {"Item not found for given category_id/item_name_id/color_id",
                               "Item lookup failed"}

C16_Witness ==
  /\ call.op = "insert_stock_log"
  /\ call.by_triple /\ ~call.found
  /\ call.msg = "Item not found for given category_id/item_name_id/color_id"
  /\ call.n_before = 1 /\ Len(ledger) = 1

\* C17: a transfer of a quantity <= 0 is refused before the store is
\* touched: transfer_via_logs makes no insert_stock_log call and writes no
\* row, transfer_stock does not call the remote procedure, and both return
\* failure.
C17_NonPositiveRejected ==
  (call.op \in {"transfer_via_logs", "transfer_stock"} /\ call.quantity <= 0) =>
    /\ ~call.ok
    /\ call.msg = "Quantity must be positive"
    /\ Len(ledger) = call.n_before
    /\ call.op = "transfer_via_logs" => call.attempts = <<>>
    /\ call.op = "transfer_stock" => ~call.rpc

C17_Witness ==
  /\ call.op = "transfer_stock" /\ call.quantity = 0
  /\ ~call.ok /\ ~call.rpc
  /\ call.n_before = 1 /\ Len(ledger) = 1

\* C18: transfer_via_logs makes the transfer_out write first and the
\* transfer_in write second, with the same item, size and quantity; when the
\* transfer_out write fails the transfer_in write is not made, so a call
\* never adds a transfer_in row without the transfer_out row before it.
C18_OutBeforeIn ==
  call.op = "transfer_via_logs" =>
    LET new == SubSeq(ledger, call.n_before + 1, Len(ledger)) IN
      /\ call.attempts \in {<<>>, <<"transfer_out">>, <<"transfer_out", "transfer_in">>}
      /\ call.fault = "transfer_out" => (call.attempts = <<"transfer_out">> /\ new = <<>>)
      /\ \A k \in 1..Len(new) :
           new[k].movement_type = "transfer_in" =>
             /\ k = 2
             /\ new[1].movement_type = "transfer_out"
             /\ new[1].item_id = new[2].item_id /\ new[1].size = new[2].size
             /\ new[1].quantity = -new[2].quantity
             /\ new[2].quantity = call.quantity

C18_Witness ==
  /\ call.op = "transfer_via_logs" /\ call.fault = "transfer_out"
  /\ call.attempts = <<"transfer_out">>
  /\ ~call.ok
  /\ call.n_before = 1 /\ Len(ledger) = 1

\* C6: every ledger row has a non-zero quantity: negative for out and
\* transfer_out, positive for in_stock and transfer_in, and for an adjustment
\* the value the caller gave; a call with quantity 0 is rejected whatever the
\* kind and writes nothing.
C6_SignRule ==
  /\ \A i \in 1..Len(ledger) :
       /\ ledger[i].quantity # 0
       /\ ledger[i].movement_type \in {"out", "transfer_out"} => ledger[i].quantity < 0
       /\ ledger[i].movement_type \in {"in_stock", "transfer_in"} => ledger[i].quantity > 0
  /\ (call.op = "insert_stock_log" /\ call.ok /\ call.movement_type = "adjustment")
       => ledger[Len(ledger)].quantity = call.quantity
  /\ (call.op = "insert_stock_log" /\ call.has_qty /\ call.quantity = 0)
       => ~call.ok /\ Len(ledger) = call.n_before

C6_Witness ==
  /\ call.op = "insert_stock_log" /\ call.ok
  /\ call.movement_type = "out" /\ call.quantity > 0
  /\ ledger[Len(ledger)].quantity < 0
  /\ \E i \in 1..Len(ledger) :
       ledger[i].movement_type = "adjustment" /\ ledger[i].quantity < 0

\* ------------------------------------------------------------------------
\* Properties of the delivery-order page
\* ------------------------------------------------------------------------
Submitted == sub.op = "submit"

\* the rows of the last submit that the handler takes as order lines
ValidLines == {i \in 1..Len(sub.lines) : sub.lines[i].valid}

\* C7: committing an order invokes the transfer operation exactly once for
\* each valid order line, from the warehouse to the chosen destination store,
\* with that line's item, size and quantity.
C7_TransferPerLine ==
  Submitted =>
    /\ \A k \in 1..Len(sub.calls) : sub.calls[k].line \in ValidLines
    /\ \A i \in ValidLines :
         /\ Cardinality({k \in 1..Len(sub.calls) : sub.calls[k].line = i}) = 1
         /\ \E k \in 1..Len(sub.calls) :
              /\ sub.calls[k].line = i
              /\ SkuOf(sub.calls[k].item_id) = sub.lines[i].sku
              /\ sub.calls[k].size = sub.lines[i].size
              /\ sub.calls[k].quantity = sub.lines[i].qty
              /\ sub.calls[k].from_store_id = WAREHOUSE_STORE_ID
              /\ sub.calls[k].to_store_id = sub.to_store_id

\* C8: when the order is submitted, the (SKU, size) pairs of its rows are
\* pairwise distinct, whatever add-row, change-SKU and change-size actions
\* came before.
C8_UniquePairs ==
  Submitted =>
    \A i, j \in ValidLines :
      i # j => <<sub.lines[i].sku, sub.lines[i].size>> # <<sub.lines[j].sku, sub.lines[j].size>>

\* the warehouse quantity of the pair selected in a row
RowStock(i) == ItemStockQty(ledger, rows[i].sku, WAREHOUSE_STORE_ID, rows[i].size)

C10_EveryLineAttempted ==
  (Submitted /\ Cardinality(ValidLines) >= 2) =>
    /\ \A i \in ValidLines :
         \E k \in 1..Len(sub.transfer_results) : sub.transfer_results[k].line = i
    /\ \A k1, k2 \in 1..Len(sub.transfer_results) :
         k1 < k2 => sub.transfer_results[k1].line < sub.transfer_results[k2].line

C27_StockInAfterItem ==
  last.op = "confirm_yes" =>
    LET value == last.value
        row == value.row
    IN
    /\ Len(ledger) > last.n_before =>
         /\ last.ins_status_one /\ last.item_id # NULL /\ value.jumlah_barang # 0
         /\ Len(ledger) = last.n_before + 1
         /\ ledger[Len(ledger)] =
              [item_id |-> last.item_id, movement_type |-> "in_stock",
               store_id |-> WAREHOUSE_STORE_ID, size |-> value.size,
               quantity |-> value.jumlah_barang]
         /\ TripleOf(items[last.item_id]) =
              <<row.category_id, row.item_name_id, row.color_id>>
    /\ ~last.ins_status_one => Len(ledger) = last.n_before
    /\ (last.logged /\ ~last.ins_status_two) =>
         /\ Len(ledger) = last.n_before
         /\ last.item_id \in 1..Len(items)
         /\ TripleOf(items[last.item_id]) =
              <<row.category_id, row.item_name_id, row.color_id>>
         /\ last.price_id # NULL =>
              \E i \in 1..Len(prices) :
                /\ prices[i].id = last.price_id
                /\ prices[i].item_id = last.item_id
                /\ prices[i].cost = row.cost

\* a new item was created and priced, and the write of its stock-in failed
C27_Witness ==
  /\ last.op = "confirm_yes"
  /\ last.ins_status_one /\ last.logged /\ ~last.ins_status_two
  /\ last.item_is_new
  /\ last.price_id # NULL
  /\ ledger = <<>>

C29_BoundedDownload ==
  call.op = "save_barcode_to_folder" =>
    LET all_failed == \A k \in 1..call.max_download_retries : ~call.outcomes[k]
        downloads == call.qr # NULL /\ call.fault # "find_raise" /\ ~call.existed
    IN
    /\ call.outcome \in {"returned", "raised"}
    /\ call.attempts <= call.max_download_retries
    /\ \A k \in 1..(call.attempts - 1) : ~call.outcomes[k]
    /\ (downloads /\ ~all_failed) => call.attempts >= 1 /\ call.outcomes[call.attempts]
    /\ call.existed => call.attempts = 0 /\ Len(drive) = call.n_before
    /\ (downloads /\ all_failed) =>
         /\ call.attempts = call.max_download_retries
         /\ Len(drive) = call.n_before
         /\ call.outcome = "returned" /\ call.result = <<>>

\* the second of three attempts succeeds and the image is uploaded
C29_Witness ==
  /\ call.op = "save_barcode_to_folder"
  /\ call.max_download_retries = 3
  /\ ~call.outcomes[1] /\ call.outcomes[2] /\ call.outcomes[3]
  /\ call.attempts = 2
  /\ call.outcome = "returned" /\ call.result # <<>>
  /\ Len(drive) = call.n_before + 1

\* C30: get_barcode_url_list returns one entry per order line, in line order,
\* and every entry is a barcode result whose file id names a file of the
\* folder with the name of the line's SKU.
C30_BarcodePerLine ==
  (call.op = "get_barcode_url_list" /\ call.outcome = "returned") =>
    /\ Len(call.barcodes) = Len(call.lines)
    /\ \A i \in 1..Len(call.lines) :
         /\ call.barcodes[i] # <<>>
         /\ call.barcodes[i][1].file_id \in 1..Len(drive)
         /\ drive[call.barcodes[i][1].file_id] = call.lines[i]

====
